---------------------------- MODULE Spec2Model ----------------------------
(***************************************************************************)
(* Local Task Manager: the JSON-file task store behind the HTTP routes     *)
(* (routes/api.js, utils/fileManager.js), the recurrence rule              *)
(* calculateNextDueDate, the client-side streak counter                    *)
(* (public/js/gamification.js), the appointment reminder                   *)
(* (public/js/appointmentReminder.js) and the single-instance lock of the  *)
(* server (server.js).                                                     *)
(*                                                                         *)
(* Seven specifications share this module:                                 *)
(*   Spec         the task store driven by HTTP requests and the clock     *)
(*   FaultSpec    the same routes when tasks.json cannot be read, written  *)
(*   LoopSpec     requests for one task held together by the event loop    *)
(*   RecurSpec    calculateNextDueDate applied to calendar dates           *)
(*   StreakSpec   the Gamification object, localStorage and the calendar   *)
(*   ReminderSpec the AppointmentReminder object, localStorage, the clock  *)
(*   LockSpec     server processes started on one data directory           *)
(*                                                                         *)
(* Encoding of JavaScript values.  A nullable value is Null (<<>>) or      *)
(* Some(v) (<<v>>).  A string the code takes apart (split, trim, padStart) *)
(* is a sequence of one-character strings; other strings are TLA+ strings. *)
(***************************************************************************)
EXTENDS Integers, Sequences, FiniteSets, TLC

VARIABLES
  \* the server: tasks.json, the archive files, the clock, the request last
  \* served with its response, the list a GET just answered with, the number
  \* of requests served, whether tasks.json can be read and written, and
  \* the instant the server started
  tasks, archiveFiles, now, req, res, listed, served, readFails, writeFails,
  booted,
  \* the requests the event loop holds, each queued, running (its handler has
  \* read the task and not yet written it) or done
  handlers,
  \* calculateNextDueDate applied repeatedly: the date given, the date
  \* returned, the recurrence, the flag, the number of applications
  rPrev, rDue, rRecurring, rWorkingDaysOnly, rSteps,
  \* the browser: the calendar day, localStorage['taskStreakData'], the
  \* Gamification object, the value recordTaskCompletion last returned, and
  \* the completions recorded on each day (history)
  today, stored, currentStreak, lastCompletedDate, tasksCompletedToday,
  returned, done,
  \* the browser's appointment reminder: the local clock (ms), the
  \* AppointmentReminder object's set, localStorage['appointmentReminders'],
  \* and three histories: the check that just ran, the alerts shown, and the
  \* days on which resetTaskReminder or clearAllReminders was called
  clock, remindedTaskIds, reminders, lastCheck, alerts, resets,
  \* the server processes started on one data directory: where each is in
  \* its startup, local_data/.lock (the pid written in it), and the pid each
  \* process read from the lock
  pc, lock, seen,
  \* the page (app.js): App.activeTaskId, the TaskTimer, and the click
  \* handlers called, each with the fetch it awaits and where that fetch is
  activeTaskId, timer, calls

serverVars ==
  <<tasks, archiveFiles, now, req, res, listed, served, readFails, writeFails,
    booted, handlers>>

recurVars == <<rPrev, rDue, rRecurring, rWorkingDaysOnly, rSteps>>

streakVars == <<today, stored, currentStreak, lastCompletedDate,
                tasksCompletedToday, returned, done>>

reminderVars == <<clock, remindedTaskIds, reminders, lastCheck, alerts, resets>>

lockVars == <<pc, lock, seen>>

clientVars == <<activeTaskId, timer, calls>>

vars ==
  <<serverVars, recurVars, streakVars, reminderVars, lockVars, clientVars>>

Null == <<>>

Some(v) == <<v>>

Val(o) == o[1]

\* The elements of a sequence.
Range(q) == { q[i] : i \in 1..Len(q) }

\* JavaScript truthiness, per type of the value held: null and undefined are
\* falsy, and so are "", 0 and false.
TruthySeq(o) == o # Null /\ Val(o) # <<>>

TruthyStr(o) == o # Null /\ Val(o) # ""

TruthyNum(o) == o # Null /\ Val(o) # 0

TruthyBool(o) == o # Null /\ Val(o) = TRUE

-----------------------------------------------------------------------------
(* Strings as character sequences                                          *)

DigitChars == <<"0", "1", "2", "3", "4", "5", "6", "7", "8", "9">>

DigitVal(c) == (CHOOSE i \in 1..10 : DigitChars[i] = c) - 1

RECURSIVE NumberOf(_)
\* Number(s) for a string of decimal digits ("" gives 0).
NumberOf(s) ==
  IF s = <<>> THEN 0
  ELSE NumberOf(SubSeq(s, 1, Len(s) - 1)) * 10 + DigitVal(s[Len(s)])

RECURSIVE StringOf(_)
\* String(n) for a natural number n.
StringOf(n) ==
  IF n < 10 THEN <<DigitChars[n + 1]>>
  ELSE StringOf(n \div 10) \o <<DigitChars[(n % 10) + 1]>>

RECURSIVE PadStart(_, _, _)
\* s.padStart(width, c)
PadStart(s, width, c) ==
  IF Len(s) >= width THEN s ELSE PadStart(<<c>> \o s, width, c)

RECURSIVE SplitAt(_, _, _)
\* s.split(sep), scanning s with the current piece cur.
SplitAt(s, sep, cur) ==
  IF s = <<>> THEN <<cur>>
  ELSE IF Head(s) = sep THEN <<cur>> \o SplitAt(Tail(s), sep, <<>>)
  ELSE SplitAt(Tail(s), sep, Append(cur, Head(s)))

Split(s, sep) == SplitAt(s, sep, <<>>)

-----------------------------------------------------------------------------
(* The JavaScript Date object restricted to whole local days: a Date at    *)
(* local midnight is the number of days since 1970-01-01 (ECMAScript       *)
(* MakeDay, YearFromTime, MonthFromTime, DateFromTime, WeekDay).           *)

InLeapYear(y) == (y % 4 = 0 /\ y % 100 # 0) \/ y % 400 = 0

\* ECMAScript DayFromYear: the day number of January 1st of year y.
DayFromYear(y) ==
  365 * (y - 1970) + ((y - 1969) \div 4) - ((y - 1901) \div 100)
    + ((y - 1601) \div 400)

\* Days before the first of month m (1..12) in a common year.
MonthStart == <<0, 31, 59, 90, 120, 151, 181, 212, 243, 273, 304, 334>>

DayWithinYearOfMonth(y, m) ==
  MonthStart[m] + (IF m > 2 /\ InLeapYear(y) THEN 1 ELSE 0)

\* new Date(year, month - 1, day): MakeDay, with day allowed out of range.
MakeDay(y, m, d) == DayFromYear(y) + DayWithinYearOfMonth(y, m) + d - 1

\* getFullYear()
YearFromDay(n) ==
  CHOOSE y \in (1970 + n \div 366)..(1971 + n \div 365) :
    DayFromYear(y) <= n /\ n < DayFromYear(y + 1)

\* getMonth() + 1
MonthFromDay(n) ==
  LET y == YearFromDay(n)
      k == n - DayFromYear(y)
  IN  CHOOSE m \in 1..12 :
        /\ DayWithinYearOfMonth(y, m) <= k
        /\ (m = 12 \/ k < DayWithinYearOfMonth(y, m + 1))

\* getDate()
DateFromDay(n) ==
  LET y == YearFromDay(n)
  IN  n - DayFromYear(y) - DayWithinYearOfMonth(y, MonthFromDay(n)) + 1

\* getDay(): 0 = Sunday ... 6 = Saturday; 1970-01-01 was a Thursday.
GetDay(n) == (n + 4) % 7

\* date.setDate(dt) on the Date n: the month of n, day-of-month dt.
SetDate(n, dt) == MakeDay(YearFromDay(n), MonthFromDay(n), dt)

\* The `${newYear}-${newMonth}-${newDay}` template of calculateNextDueDate.
FormatDate(n) ==
  StringOf(YearFromDay(n)) \o <<"-">>
    \o PadStart(StringOf(MonthFromDay(n)), 2, "0") \o <<"-">>
    \o PadStart(StringOf(DateFromDay(n)), 2, "0")

\* currentDate.split('-').map(Number) and new Date(year, month - 1, day).
ParseDate(s) ==
  LET p == Split(s, "-")
  IN  MakeDay(NumberOf(p[1]), NumberOf(p[2]), NumberOf(p[3]))

-----------------------------------------------------------------------------
(* calculateNextDueDate (routes/api.js)                                    *)

\* Mutant: a Saturday is moved on by one day only.
SkipWeekendSaturdayOffByOne(date) ==
  LET dayOfWeek == GetDay(date)
  IN  IF dayOfWeek = 0 THEN SetDate(date, DateFromDay(date) + 1)
      ELSE IF dayOfWeek = 6 THEN SetDate(date, DateFromDay(date) + 1)
      ELSE date

\* The weekend skip of a daily, working-days-only recurrence.
SkipWeekend(date) ==
  LET dayOfWeek == GetDay(date)
  IN  IF dayOfWeek = 0 THEN SetDate(date, DateFromDay(date) + 1)
      ELSE IF dayOfWeek = 6 THEN SetDate(date, DateFromDay(date) + 2)
      ELSE date

\* Mutant: the weekly branch honours the working-days-only flag.
AdvanceDateWeeklySkipsWeekend(date, recurring, workingDaysOnly) ==
  IF recurring = "daily"
    THEN LET next == SetDate(date, DateFromDay(date) + 1)
         IN  IF workingDaysOnly THEN SkipWeekend(next) ELSE next
  ELSE IF recurring = "weekly"
    THEN LET next == SetDate(date, DateFromDay(date) + 7)
         IN  IF workingDaysOnly THEN SkipWeekend(next) ELSE next
  ELSE date

\* The Date after the recurrence step, from the parsed Date.
AdvanceDate(date, recurring, workingDaysOnly) ==
  IF recurring = "daily"
    THEN LET next == SetDate(date, DateFromDay(date) + 1)
         IN  IF workingDaysOnly THEN SkipWeekend(next) ELSE next
  ELSE IF recurring = "weekly" THEN SetDate(date, DateFromDay(date) + 7)
  ELSE date

\* currentDate and recurring are nullable; the result is currentDate itself
\* when either is missing, else the formatted next date.
calculateNextDueDate(currentDate, recurring, workingDaysOnly) ==
  IF ~TruthySeq(currentDate) \/ ~TruthyStr(recurring) THEN currentDate
  ELSE Some(FormatDate(AdvanceDate(ParseDate(Val(currentDate)),
                                   Val(recurring), workingDaysOnly)))

-----------------------------------------------------------------------------
(* Calendar facts the claims are stated with, computed without the Date    *)
(* model above: month lengths, the day after a date, and the weekday by    *)
(* Zeller's congruence.                                                    *)

DaysInMonthOf(y, m) ==
  IF m = 2 THEN (IF InLeapYear(y) THEN 29 ELSE 28)
  ELSE IF m \in {4, 6, 9, 11} THEN 30 ELSE 31

\* A calendar date as the "YYYY-MM-DD" string of an HTML date input.
DateString(y, m, d) ==
  StringOf(y) \o <<"-">> \o PadStart(StringOf(m), 2, "0") \o <<"-">>
    \o PadStart(StringOf(d), 2, "0")

\* The <<year, month, day>> a well-formed "YYYY-MM-DD" string names.
FieldsOf(s) ==
  <<NumberOf(SubSeq(s, 1, 4)), NumberOf(SubSeq(s, 6, 7)),
    NumberOf(SubSeq(s, 9, 10))>>

WellFormedDate(s) ==
  /\ Len(s) = 10
  /\ s[5] = "-" /\ s[8] = "-"
  /\ \A i \in {1, 2, 3, 4, 6, 7, 9, 10} : \E k \in 1..10 : DigitChars[k] = s[i]
  /\ FieldsOf(s)[2] \in 1..12
  /\ FieldsOf(s)[3] \in 1..DaysInMonthOf(FieldsOf(s)[1], FieldsOf(s)[2])

NextCalendarDay(f) ==
  IF f[3] < DaysInMonthOf(f[1], f[2]) THEN <<f[1], f[2], f[3] + 1>>
  ELSE IF f[2] < 12 THEN <<f[1], f[2] + 1, 1>>
  ELSE <<f[1] + 1, 1, 1>>

RECURSIVE DaysLater(_, _)
DaysLater(f, k) == IF k = 0 THEN f ELSE DaysLater(NextCalendarDay(f), k - 1)

\* Zeller's congruence: 0 = Saturday, 1 = Sunday, 2 = Monday ... 6 = Friday.
Zeller(f) ==
  LET m == IF f[2] < 3 THEN f[2] + 12 ELSE f[2]
      y == IF f[2] < 3 THEN f[1] - 1 ELSE f[1]
  IN  (f[3] + ((13 * (m + 1)) \div 5) + (y % 100) + ((y % 100) \div 4)
         + ((y \div 100) \div 4) + 5 * (y \div 100)) % 7

IsWeekend(f) == Zeller(f) \in {0, 1}

RECURSIVE EarliestWorkingDayAfter(_)
EarliestWorkingDayAfter(f) ==
  LET n == NextCalendarDay(f)
  IN  IF IsWeekend(n) THEN EarliestWorkingDayAfter(n) ELSE n

-----------------------------------------------------------------------------
(* Initial values of the three parts                                       *)

ServerIdle ==
  /\ tasks = <<>>
  /\ archiveFiles = <<>>
  /\ now = 0
  /\ req = [op |-> "none", id |-> Null, body |-> Null]
  /\ res = [status |-> 0, error |-> ""]
  /\ listed = Null
  /\ served = 0
  /\ readFails = FALSE
  /\ writeFails = FALSE
  /\ booted = 0
  /\ handlers = <<>>

RecurIdle ==
  /\ rPrev = Null
  /\ rDue = Null
  /\ rRecurring = Null
  /\ rWorkingDaysOnly = FALSE
  /\ rSteps = 0

\* new Gamification() with nothing in localStorage: resetStreak().
StreakIdle ==
  /\ today = 0
  /\ stored = Null
  /\ currentStreak = 0
  /\ lastCompletedDate = Null
  /\ tasksCompletedToday = 0
  /\ returned = FALSE
  /\ done = <<0>>

\* new AppointmentReminder() with nothing in localStorage.
ReminderIdle ==
  /\ clock = 0
  /\ remindedTaskIds = {}
  /\ reminders = Null
  /\ lastCheck = Null
  /\ alerts = <<>>
  /\ resets = {}

\* No server process has been started and there is no lock file.
LockIdle ==
  /\ pc = <<>>
  /\ lock = Null
  /\ seen = <<>>

\* The page as its constructors leave it: no active task, the timer
\* stopped, no click handled.
ClientIdle ==
  /\ activeTaskId = Null
  /\ timer = Null
  /\ calls = <<>>

-----------------------------------------------------------------------------
(* RecurSpec: calculateNextDueDate on every calendar date of a range of    *)
(* years, applied again to its own result as completing the successor of a *)
(* recurring task does.                                                    *)

FirstYear == 2024

NumYears == 2

MaxSteps == 2

DueDates ==
  { DateString(y, m, d) : y \in FirstYear..(FirstYear + NumYears - 1),
                          m \in 1..12, d \in 1..31 }

RecurInit ==
  /\ rPrev = Null
  /\ rDue \in {Null} \cup { Some(s) : s \in { t \in DueDates : WellFormedDate(t) } }
  /\ rRecurring \in {Null, Some("daily"), Some("weekly")}
  /\ rWorkingDaysOnly \in BOOLEAN
  /\ rSteps = 0
  /\ ServerIdle
  /\ StreakIdle
  /\ ReminderIdle
  /\ LockIdle
  /\ ClientIdle

Recur ==
  /\ rSteps < MaxSteps
  /\ rPrev' = rDue
  /\ rDue' = calculateNextDueDate(rDue, rRecurring, rWorkingDaysOnly)
  /\ rSteps' = rSteps + 1
  /\ UNCHANGED <<rRecurring, rWorkingDaysOnly, serverVars, streakVars,
                 reminderVars, lockVars, clientVars>>

RecurNext == Recur

RecurSpec == RecurInit /\ [][RecurNext]_vars

-----------------------------------------------------------------------------
(* Gamification (public/js/gamification.js).  A calendar day is its day    *)
(* number; toDateString() names it by weekday, month, day and year, and    *)
(* new Date(string) reads the day back as local midnight in milliseconds.  *)

MsPerDay == 1000 * 60 * 60 * 24

\* new Date().toDateString() on day n, e.g. "Thu Jan 01 1970".
ToDateString(n) ==
  [wd |-> GetDay(n), mon |-> MonthFromDay(n), dd |-> DateFromDay(n),
   yyyy |-> YearFromDay(n)]

\* new Date(dateString).getTime(): local midnight of the day named.
DateOfString(s) == MakeDay(s.yyyy, s.mon, s.dd) * MsPerDay

\* daysDiff of loadStreakData.
DaysDiff(lastStr, todayStr) ==
  (DateOfString(todayStr) - DateOfString(lastStr)) \div MsPerDay

\* data.currentStreak || 0
OrZero(n) == IF n # 0 THEN n ELSE 0

\* resetStreak(): the three fields after it.
ResetFields ==
  [currentStreak |-> 0, lastCompletedDate |-> Null, tasksCompletedToday |-> 0]

\* The three fields loadStreakData() leaves, from localStorage and the day.
LoadedFields(item, day) ==
  IF item = Null THEN ResetFields
  ELSE LET data == Val(item)
           todayStr == ToDateString(day)
       IN  IF data.lastCompletedDate = Some(todayStr)
             THEN [currentStreak |-> OrZero(data.currentStreak),
                   lastCompletedDate |-> data.lastCompletedDate,
                   tasksCompletedToday |-> OrZero(data.tasksCompletedToday)]
           ELSE IF data.lastCompletedDate # Null
             THEN IF DaysDiff(Val(data.lastCompletedDate), todayStr) = 1
                    THEN [currentStreak |-> data.currentStreak + 1,
                          lastCompletedDate |-> Some(todayStr),
                          tasksCompletedToday |-> 0]
                    ELSE [currentStreak |-> 0,
                          lastCompletedDate |-> Some(todayStr),
                          tasksCompletedToday |-> 0]
           ELSE ResetFields

\* saveStreakData(): the item written to localStorage.
SavedItem(streak, last, count) ==
  Some([currentStreak |-> streak, lastCompletedDate |-> last,
        tasksCompletedToday |-> count])

\* Mutant: reaching 3 adds to the streak whatever it was.
SameDayStreakCountsAgain(streak, count) ==
  IF count = 3 THEN streak + 1 ELSE streak

\* The same-day branch of recordTaskCompletion: the streak after it.
SameDayStreak(streak, count) ==
  IF count = 3 /\ streak = 0 THEN 1 ELSE streak

\* The value the same-day branch returns.
SameDayReturn(count) == count = 3

\* Mutant: a previous day below the minimum does not reset the streak.
NewDayStreakNoReset(streak, count) ==
  LET previousDayMet == count >= 3
  IN  IF previousDayMet /\ streak > 0 THEN streak + 1
      ELSE IF previousDayMet /\ streak = 0 THEN 1
      ELSE streak

\* The new-day branch of recordTaskCompletion: the streak after it.
NewDayStreak(streak, count) ==
  LET previousDayMet == count >= 3
  IN  IF previousDayMet /\ streak > 0 THEN streak + 1
      ELSE IF previousDayMet /\ streak = 0 THEN 1
      ELSE IF ~previousDayMet THEN 0
      ELSE streak

MaxDay == 3

MaxDone == 4

\* Midnight passes while the page stays open or closed.
NextDay ==
  /\ today < MaxDay
  /\ today' = today + 1
  /\ done' = Append(done, 0)
  /\ UNCHANGED <<stored, currentStreak, lastCompletedDate,
                 tasksCompletedToday, returned>>
  /\ UNCHANGED <<serverVars, recurVars, reminderVars, lockVars,
                 clientVars>>

\* The page is loaded again: new Gamification() runs loadStreakData().
Reload ==
  LET f == LoadedFields(stored, today)
  IN  /\ currentStreak' = f.currentStreak
      /\ lastCompletedDate' = f.lastCompletedDate
      /\ tasksCompletedToday' = f.tasksCompletedToday
      /\ returned' = FALSE
      /\ UNCHANGED <<today, stored, done>>
      /\ UNCHANGED <<serverVars, recurVars, reminderVars, lockVars,
                 clientVars>>

\* A task is completed in the page: recordTaskCompletion().
recordTaskCompletion ==
  LET todayStr == ToDateString(today)
  IN  /\ done[today + 1] < MaxDone
      /\ done' = [done EXCEPT ![today + 1] = @ + 1]
      /\ IF lastCompletedDate = Some(todayStr)
           THEN /\ tasksCompletedToday' = tasksCompletedToday + 1
                /\ currentStreak' =
                     SameDayStreak(currentStreak, tasksCompletedToday')
                /\ lastCompletedDate' = lastCompletedDate
                /\ returned' = SameDayReturn(tasksCompletedToday')
           ELSE /\ currentStreak' =
                     NewDayStreak(currentStreak, tasksCompletedToday)
                /\ lastCompletedDate' = Some(todayStr)
                /\ tasksCompletedToday' = 1
                /\ returned' = FALSE
      /\ stored' = SavedItem(currentStreak', lastCompletedDate',
                             tasksCompletedToday')
      /\ UNCHANGED today
      /\ UNCHANGED <<serverVars, recurVars, reminderVars, lockVars,
                 clientVars>>

StreakNext == NextDay \/ Reload \/ recordTaskCompletion

StreakInit ==
  /\ StreakIdle /\ ServerIdle /\ RecurIdle /\ ReminderIdle /\ LockIdle
  /\ ClientIdle

StreakSpec == StreakInit /\ [][StreakNext]_vars

-----------------------------------------------------------------------------
(* The task store (utils/fileManager.js) and the values the routes build   *)

\* new Date(ms).toISOString(): the UTC calendar date and the time of day.
ToISOString(ms) ==
  [date |-> FormatDate(ms \div MsPerDay), time |-> ms % MsPerDay]

\* new Date(isoString).getTime()
GetTime(iso) == ParseDate(iso.date) * MsPerDay + iso.time

RECURSIVE TrimStart(_)
TrimStart(s) ==
  IF s # <<>> /\ Head(s) = " " THEN TrimStart(Tail(s)) ELSE s

RECURSIVE TrimEnd(_)
TrimEnd(s) ==
  IF s # <<>> /\ s[Len(s)] = " " THEN TrimEnd(SubSeq(s, 1, Len(s) - 1)) ELSE s

\* description.trim()
Trim(s) == TrimEnd(TrimStart(s))

\* readTasks(): the tasks array of tasks.json.
readTasks == IF readFails THEN <<>> ELSE tasks

\* tasks.findIndex((t) => t.id === id): the first position, 0 for -1.
FindIndex(ts, id) ==
  IF \E i \in 1..Len(ts) : ts[i].id = id
    THEN CHOOSE i \in 1..Len(ts) :
           ts[i].id = id /\ \A j \in 1..(i - 1) : ts[j].id # id
    ELSE 0

\* getTask(taskId): the task, or null.
getTask(id) ==
  LET i == FindIndex(readTasks, id)
  IN  IF i = 0 THEN Null ELSE Some(readTasks[i])

\* saveTask(task): tasks.json after it, read again from the file.
saveTask(task) ==
  LET ts == readTasks
      existingIndex == FindIndex(ts, task.id)
  IN  IF existingIndex > 0 THEN [ts EXCEPT ![existingIndex] = task]
      ELSE Append(ts, task)

\* deleteTask(taskId): tasks.json after it.
deleteTask(id) ==
  LET keep(t) == t.id # id
  IN  SelectSeq(readTasks, keep)

RECURSIVE FlattenFiles(_)
FlattenFiles(files) ==
  IF files = <<>> THEN <<>>
  ELSE Head(files).tasks \o FlattenFiles(Tail(files))

\* readArchivedTasks(): the tasks of every archive_*.json file.
readArchivedTasks == FlattenFiles(archiveFiles)

\* GET /api/tasks
GetTasks ==
  LET active(t) == ~t.archived
  IN  SelectSeq(readTasks, active)

\* GET /api/tasks/archived
GetArchivedTasks ==
  LET archived(t) == t.archived
  IN  SelectSeq(readTasks, archived) \o readArchivedTasks

\* new URL(link) succeeds: the link starts with a scheme and "://".
ValidURLs == {"https://example.com/doc"}

\* Mutant: the priority is not validated.
validateTaskWithoutPriority(task) ==
  IF Len(Trim(task.description)) = 0 THEN "Description is required"
  ELSE IF \E i \in 1..Len(task.links) : task.links[i] \notin ValidURLs
    THEN "Invalid URL"
  ELSE ""

\* validateTask(task): the message of the Error thrown, "" when none is.
\* (details is a string or null in every request body of the model, so the
\* typeof check never throws.)
validateTask(task) ==
  IF Len(Trim(task.description)) = 0 THEN "Description is required"
  ELSE IF task.priority \notin {"low", "medium", "high"}
    THEN "Invalid priority value"
  ELSE IF \E i \in 1..Len(task.links) : task.links[i] \notin ValidURLs
    THEN "Invalid URL"
  ELSE ""

\* The descriptive fields POST /api/tasks takes from the request body.
BodyFields(body) ==
  [description |-> Trim(Val(body.description)),
   dueDate |-> IF TruthySeq(body.dueDate) THEN body.dueDate ELSE Null,
   dueTime |-> IF TruthyStr(body.dueTime) THEN body.dueTime ELSE Null,
   priority |-> IF TruthyStr(body.priority) THEN Val(body.priority)
                ELSE "medium",
   recurring |-> IF TruthyStr(body.recurring) THEN body.recurring ELSE Null,
   details |-> IF TruthyStr(body.details) THEN body.details ELSE Null,
   links |-> IF body.links # Null THEN Val(body.links) ELSE <<>>,
   isAppointment |-> TruthyBool(body.isAppointment),
   reminderMinutes |->
     IF TruthyBool(body.isAppointment)
       THEN (IF TruthyNum(body.reminderMinutes) THEN body.reminderMinutes
             ELSE Some(30))
       ELSE Null,
   workingDaysOnly |->
     IF body.recurring = Some("daily") THEN TruthyBool(body.workingDaysOnly)
     ELSE FALSE]

\* The timer and lifecycle fields of a task just created.
FreshFields ==
  [completed |-> FALSE, archived |-> FALSE, inProgress |-> FALSE,
   startedAt |-> Null, timeSpent |-> 0, completedAt |-> Null]

\* The task POST /api/tasks creates under id at time t.
NewTask(id, body, t) ==
  [id |-> id, createdAt |-> ToISOString(t), updatedAt |-> ToISOString(t)]
    @@ BodyFields(body) @@ FreshFields

\* Mutant: the edit stores the timer and lifecycle fields of a new task.
UpdatedTaskResetsTimer(existingTask, body, t) ==
  [updatedAt |-> ToISOString(t)] @@ BodyFields(body) @@ FreshFields
    @@ existingTask

\* The task POST /api/tasks stores for an existing task: { ...existingTask,
\* the descriptive fields, updatedAt }.
UpdatedTask(existingTask, body, t) ==
  [updatedAt |-> ToISOString(t)] @@ BodyFields(body) @@ existingTask

-----------------------------------------------------------------------------
(* The routes (routes/api.js).  A request arrives after a delay and its    *)
(* handler runs to completion at that instant: the handlers are            *)
(* synchronous, and every Date.now() and new Date() of one handler reads   *)
(* the same millisecond.                                                   *)

MaxTasks == 3

TickMs == 1500

MaxTicks == 2

MaxRequests == 4

Delays == {0, TickMs}

\* The delays after which the next request may arrive, while the model's
\* budget of requests and of clock ticks lasts.
Arrivals ==
  IF served < MaxRequests
    THEN { dt \in Delays : now + dt <= booted + MaxTicks * TickMs }
    ELSE {}

\* Math.floor(Math.random() * 1000) of the successor's id.
RandomDraws == {7, 42}

\* Ids a client may send that the server did not hand out.
ClientIds == {<<"x">>}

NoBody ==
  [description |-> Null, dueDate |-> Null, dueTime |-> Null,
   priority |-> Null, links |-> Null, recurring |-> Null, details |-> Null,
   isAppointment |-> Null, reminderMinutes |-> Null,
   workingDaysOnly |-> Null]

\* The request bodies sent: a plain task with a due date, a daily
\* working-days appointment with every field set, a weekly task without a
\* due date, a blank description, no description, a priority that is not
\* one of the three, a link that is not a URL, and a recurrence that is not
\* one of the two.
Bodies ==
  { [NoBody EXCEPT !.description = Some(<<"a">>),
                   !.dueDate = Some(DateString(2025, 12, 31))],
    [NoBody EXCEPT !.description = Some(<<" ", "b">>),
                   !.dueDate = Some(DateString(2025, 10, 24)),
                   !.dueTime = Some("09:30"),
                   !.priority = Some("high"),
                   !.links = Some(<<"https://example.com/doc">>),
                   !.recurring = Some("daily"),
                   !.details = Some("notes"),
                   !.isAppointment = Some(TRUE),
                   !.reminderMinutes = Some(15),
                   !.workingDaysOnly = Some(TRUE)],
    [NoBody EXCEPT !.description = Some(<<"c">>),
                   !.recurring = Some("weekly"),
                   !.workingDaysOnly = Some(TRUE)],
    [NoBody EXCEPT !.description = Some(<<" ">>)],
    NoBody,
    [NoBody EXCEPT !.description = Some(<<"a">>),
                   !.priority = Some("urgent")],
    [NoBody EXCEPT !.description = Some(<<"a">>),
                   !.links = Some(<<"https://example.com/doc", "not a url">>)],
    [NoBody EXCEPT !.description = Some(<<"a">>),
                   !.recurring = Some("monthly")] }

StoredIds == { tasks[i].id : i \in 1..Len(tasks) }

\* The ids of the tasks GET /api/tasks/archived lists from the archive files.
FiledIds == { readArchivedTasks[i].id : i \in 1..Len(readArchivedTasks) }

\* The ids the page sends: those of the tasks it lists, and others.
RequestIds == StoredIds \cup FiledIds \cup ClientIds

\* The status and error message of a response (a successful response
\* carries the task as stored, or the success message of delete).
OK == [status |-> 200, error |-> ""]

Failed(status, error) == [status |-> status, error |-> error]

\* The request op(id, body) is served dt after the previous one: tasks.json
\* becomes ts, the archive files become files and the response is r.
Answer(dt, op, id, body, ts, files, r) ==
  /\ served' = served + 1
  /\ Len(ts) <= MaxTasks
  /\ now' = now + dt
  /\ req' = [op |-> op, id |-> id, body |-> body]
  /\ res' = r
  /\ tasks' = ts
  /\ archiveFiles' = files
  /\ listed' = Null
  /\ UNCHANGED <<readFails, writeFails, booted, handlers>>
  /\ UNCHANGED <<recurVars, streakVars, reminderVars, lockVars,
                 clientVars>>

\* A request of a route that leaves the archive files alone.
Serve(dt, op, id, body, ts, r) ==
  Answer(dt, op, id, body, ts, archiveFiles, r)

\* Mutant: the error writeTasks throws is swallowed and the handler answers
\* as if the write had been made.
WrittenSwallowsError(dt, op, id, body, ts, failure) ==
  Serve(dt, op, id, body, IF writeFails THEN tasks ELSE ts, OK)

\* The handler ends with a write of tasks.json as ts: when writeTasks throws,
\* the file stays as it was and the catch block answers with failure.
Written(dt, op, id, body, ts, failure) ==
  IF writeFails THEN Serve(dt, op, id, body, tasks, failure)
  ELSE Serve(dt, op, id, body, ts, OK)

\* POST /api/tasks (id is null when the body carries none)
PostTask ==
  \E dt \in Arrivals, id \in {Null} \cup { Some(i) : i \in RequestIds },
     body \in Bodies :
    LET t == now + dt
        existingTask == IF TruthySeq(id) THEN getTask(Val(id)) ELSE Null
        task == IF TruthySeq(id)
                  THEN IF existingTask # Null
                         THEN UpdatedTask(Val(existingTask), body, t)
                         ELSE NewTask(Val(id), body, t)
                  ELSE NewTask(StringOf(t), body, t)
    IN  IF ~TruthySeq(body.description)
             \/ Len(Trim(Val(body.description))) = 0
          THEN Serve(dt, "post", id, Some(body), tasks,
                     Failed(400, "Description is required"))
        ELSE IF TruthyStr(body.recurring)
                  /\ Val(body.recurring) \notin {"daily", "weekly"}
          THEN Serve(dt, "post", id, Some(body), tasks,
                     Failed(400, "Recurring must be \"daily\" or \"weekly\""))
        ELSE IF validateTask(task) # ""
          THEN Serve(dt, "post", id, Some(body), tasks,
                     Failed(400, validateTask(task)))
        ELSE Written(dt, "post", id, Some(body), saveTask(task),
                     Failed(400, "EACCES: permission denied, open"))

\* The tasks array of the start handler after its forEach: every other
\* task in progress is stopped, in memory.
StoppedOthers(ts, id) ==
  [i \in 1..Len(ts) |->
     IF ts[i].inProgress /\ ts[i].id # id
       THEN [ts[i] EXCEPT !.inProgress = FALSE, !.startedAt = Null]
       ELSE ts[i]]

\* Mutant: the tasks stopped by the forEach are written back before the
\* requested task is looked up.
StartTaskWritesStopsFirst ==
  \E dt \in Arrivals, id \in RequestIds :
    LET t == now + dt
        local == StoppedOthers(readTasks, id)
        i == FindIndex(local, id)
        task == [local[i] EXCEPT !.inProgress = TRUE,
                                 !.startedAt = Some(ToISOString(t)),
                                 !.updatedAt = ToISOString(t)]
    IN  IF i = 0
          THEN Serve(dt, "start", Some(id), Null, local,
                     Failed(404, "Task not found"))
          ELSE Written(dt, "start", Some(id), Null, saveTask(task),
                       Failed(500, "Failed to start task"))

\* POST /api/tasks/:id/start
StartTask ==
  \E dt \in Arrivals, id \in RequestIds :
    LET t == now + dt
        local == StoppedOthers(readTasks, id)
        i == FindIndex(local, id)
        task == [local[i] EXCEPT !.inProgress = TRUE,
                                 !.startedAt = Some(ToISOString(t)),
                                 !.updatedAt = ToISOString(t)]
    IN  IF i = 0
          THEN Serve(dt, "start", Some(id), Null, tasks,
                     Failed(404, "Task not found"))
          ELSE Written(dt, "start", Some(id), Null, saveTask(task),
                       Failed(500, "Failed to start task"))

\* Mutant: the subtraction is the wrong way round.
ElapsedSwapped(task, t) ==
  IF task.inProgress /\ task.startedAt # Null
    THEN (GetTime(Val(task.startedAt)) - t) \div 1000
    ELSE 0

\* Mutant: the elapsed time is rounded up to the next whole second.
ElapsedRoundedUp(task, t) ==
  IF task.inProgress /\ task.startedAt # Null
    THEN (t - GetTime(Val(task.startedAt)) + 999) \div 1000
    ELSE 0

\* The seconds stop and complete add to timeSpent at time t.
Elapsed(task, t) ==
  IF task.inProgress /\ task.startedAt # Null
    THEN (t - GetTime(Val(task.startedAt))) \div 1000
    ELSE 0

\* Mutant: stop leaves startedAt as it is.
StopTaskKeepsStartedAt ==
  \E dt \in Arrivals, id \in RequestIds :
    LET t == now + dt
        found == getTask(id)
        task == [Val(found) EXCEPT !.timeSpent = @ + Elapsed(Val(found), t),
                                   !.inProgress = FALSE,
                                   !.updatedAt = ToISOString(t)]
    IN  IF found = Null
          THEN Serve(dt, "stop", Some(id), Null, tasks,
                     Failed(404, "Task not found"))
          ELSE Written(dt, "stop", Some(id), Null, saveTask(task),
                       Failed(500, "Failed to stop task"))

\* POST /api/tasks/:id/stop
StopTask ==
  \E dt \in Arrivals, id \in RequestIds :
    LET t == now + dt
        found == getTask(id)
        task == [Val(found) EXCEPT !.timeSpent = @ + Elapsed(Val(found), t),
                                   !.inProgress = FALSE,
                                   !.startedAt = Null,
                                   !.updatedAt = ToISOString(t)]
    IN  IF found = Null
          THEN Serve(dt, "stop", Some(id), Null, tasks,
                     Failed(404, "Task not found"))
          ELSE Written(dt, "stop", Some(id), Null, saveTask(task),
                       Failed(500, "Failed to stop task"))

\* Mutant: the completed task is not archived.
CompletedTaskNotArchived(task, t) ==
  [task EXCEPT !.timeSpent = @ + Elapsed(task, t),
               !.completed = TRUE,
               !.inProgress = FALSE,
               !.startedAt = Null,
               !.completedAt = Some(ToISOString(t)),
               !.updatedAt = ToISOString(t)]

\* The task complete stores for the task completed at time t.
CompletedTask(task, t) ==
  [task EXCEPT !.timeSpent = @ + Elapsed(task, t),
               !.completed = TRUE,
               !.archived = TRUE,
               !.inProgress = FALSE,
               !.startedAt = Null,
               !.completedAt = Some(ToISOString(t)),
               !.updatedAt = ToISOString(t)]

\* Mutant: the due date is not looked at.
RecursWithoutDueDate(task) == TruthyStr(task.recurring)

\* complete spawns a successor for this task.
Recurs(task) == TruthyStr(task.recurring) /\ TruthySeq(task.dueDate)

\* The successor complete pushes for a recurring task, with random draw r.
SuccessorTask(task, t, r) ==
  [id |-> StringOf(t) \o StringOf(r),
   description |-> task.description,
   dueDate |-> calculateNextDueDate(task.dueDate, task.recurring,
                                    task.workingDaysOnly),
   dueTime |-> IF TruthyStr(task.dueTime) THEN task.dueTime ELSE Null,
   priority |-> task.priority,
   recurring |-> task.recurring,
   details |-> IF TruthyStr(task.details) THEN task.details ELSE Null,
   isAppointment |-> task.isAppointment,
   reminderMinutes |->
     IF TruthyNum(task.reminderMinutes) THEN task.reminderMinutes ELSE Null,
   workingDaysOnly |-> task.workingDaysOnly,
   links |-> task.links,
   createdAt |-> ToISOString(t),
   updatedAt |-> ToISOString(t)] @@ FreshFields

\* POST /api/tasks/:id/complete
CompleteTask ==
  \E dt \in Arrivals, id \in RequestIds, r \in RandomDraws :
    LET t == now + dt
        allTasks == readTasks
        taskIndex == FindIndex(allTasks, id)
        task == CompletedTask(allTasks[taskIndex], t)
        updated == [allTasks EXCEPT ![taskIndex] = task]
        written == IF Recurs(task)
                     THEN Append(updated, SuccessorTask(task, t, r))
                     ELSE updated
    IN  IF taskIndex = 0
          THEN Serve(dt, "complete", Some(id), Null, tasks,
                     Failed(404, "Task not found"))
          ELSE Written(dt, "complete", Some(id), Null, written,
                       Failed(500, "Failed to complete task"))

\* Mutant: restore also clears the time spent.
RestoreTaskClearsTimeSpent ==
  \E dt \in Arrivals, id \in RequestIds :
    LET t == now + dt
        found == getTask(id)
        task == [Val(found) EXCEPT !.archived = FALSE,
                                   !.completed = FALSE,
                                   !.timeSpent = 0,
                                   !.updatedAt = ToISOString(t)]
    IN  IF found = Null
          THEN Serve(dt, "restore", Some(id), Null, tasks,
                     Failed(404, "Task not found"))
          ELSE Written(dt, "restore", Some(id), Null, saveTask(task),
                       Failed(500, "Failed to restore task"))

\* POST /api/tasks/:id/restore
RestoreTask ==
  \E dt \in Arrivals, id \in RequestIds :
    LET t == now + dt
        found == getTask(id)
        task == [Val(found) EXCEPT !.archived = FALSE,
                                   !.completed = FALSE,
                                   !.updatedAt = ToISOString(t)]
    IN  IF found = Null
          THEN Serve(dt, "restore", Some(id), Null, tasks,
                     Failed(404, "Task not found"))
          ELSE Written(dt, "restore", Some(id), Null, saveTask(task),
                       Failed(500, "Failed to restore task"))

\* DELETE /api/tasks/:id
DeleteTask ==
  \E dt \in Arrivals, id \in RequestIds :
    IF getTask(id) = Null
      THEN Serve(dt, "delete", Some(id), Null, tasks,
                 Failed(404, "Task not found"))
      ELSE Written(dt, "delete", Some(id), Null, deleteTask(id),
                   Failed(500, "Failed to delete task"))

Init ==
  /\ ServerIdle /\ RecurIdle /\ StreakIdle /\ ReminderIdle /\ LockIdle
  /\ ClientIdle

Next ==
  \/ PostTask
  \/ StartTask
  \/ StopTask
  \/ CompleteTask
  \/ RestoreTask
  \/ DeleteTask

Spec == Init /\ [][Next]_vars

-----------------------------------------------------------------------------
(* FaultSpec: the same routes and GET /api/tasks when tasks.json cannot be *)
(* read or parsed (readTasks catches the error), cannot be opened for      *)
(* writing (writeTasks rethrows it), or both.                              *)

\* GET /api/tasks
GetTasksRequest ==
  \E dt \in Arrivals :
    /\ served' = served + 1
    /\ now' = now + dt
    /\ req' = [op |-> "get", id |-> Null, body |-> Null]
    /\ res' = OK
    /\ listed' = Some(GetTasks)
    /\ UNCHANGED <<tasks, archiveFiles, readFails, writeFails, booted,
                   handlers>>
    /\ UNCHANGED <<recurVars, streakVars, reminderVars, lockVars,
                 clientVars>>

\* tasks.json as an earlier run of the server left it: empty, or holding the
\* task of one POST.
StoredBefore ==
  { <<>>,
    << NewTask(StringOf(0),
               [NoBody EXCEPT !.description = Some(<<"a">>),
                              !.dueDate = Some(DateString(2025, 12, 31))],
               0) >> }

FaultInit ==
  /\ tasks \in StoredBefore
  /\ archiveFiles = <<>>
  /\ now = 0
  /\ req = [op |-> "none", id |-> Null, body |-> Null]
  /\ res = [status |-> 0, error |-> ""]
  /\ listed = Null
  /\ served = 0
  /\ readFails \in BOOLEAN
  /\ writeFails \in BOOLEAN
  /\ readFails \/ writeFails
  /\ booted = 0
  /\ handlers = <<>>
  /\ RecurIdle
  /\ StreakIdle
  /\ ReminderIdle
  /\ LockIdle
  /\ ClientIdle

FaultNext == Next \/ GetTasksRequest

FaultSpec == FaultInit /\ [][FaultNext]_vars

-----------------------------------------------------------------------------
(* ArchiveSpec: tasks that are completed, moved to the daily archive files *)
(* by POST /api/archive/cleanup, restored and deleted, on a server started *)
(* one tick before midnight (UTC) over a tasks.json an earlier run left,   *)
(* so that completions fall on two calendar days.                          *)

\* getArchiveFilePath(dateStr): archive_YYYYMMDD.json, named by its digits.
getArchiveFilePath(dateStr) ==
  LET digit(c) == c # "-"
  IN  SelectSeq(dateStr, digit)

\* Mutant: the tasks replace those the archive file holds.
archiveTasksOverwrites(files, dateStr, tasksToArchive) ==
  LET filePath == getArchiveFilePath(dateStr)
  IN  IF \E k \in 1..Len(files) : files[k].path = filePath
        THEN [k \in 1..Len(files) |->
                IF files[k].path = filePath
                  THEN [files[k] EXCEPT !.tasks = tasksToArchive]
                  ELSE files[k]]
        ELSE Append(files, [path |-> filePath, tasks |-> tasksToArchive])

\* archiveTasks(dateStr, tasksToArchive): the archive files after it (a new
\* file is listed last).
archiveTasks(files, dateStr, tasksToArchive) ==
  LET filePath == getArchiveFilePath(dateStr)
  IN  IF \E k \in 1..Len(files) : files[k].path = filePath
        THEN [k \in 1..Len(files) |->
                IF files[k].path = filePath
                  THEN [files[k] EXCEPT !.tasks = @ \o tasksToArchive]
                  ELSE files[k]]
        ELSE Append(files, [path |-> filePath, tasks |-> tasksToArchive])

\* new Date(task.completedAt).toISOString().split('T')[0]
CompletedDate(task) == ToISOString(GetTime(Val(task.completedAt))).date

RECURSIVE CompletedDates(_)
\* The keys of tasksByDate, in the order they were inserted.
CompletedDates(ts) ==
  IF ts = <<>> THEN <<>>
  ELSE LET later(d) == d # CompletedDate(Head(ts))
       IN  <<CompletedDate(Head(ts))>>
             \o SelectSeq(CompletedDates(Tail(ts)), later)

RECURSIVE ArchiveByDate(_, _, _)
\* Object.entries(tasksByDate).forEach(archiveTasks): the archive files
\* after the tasks moved are appended to the files of the dates given.
ArchiveByDate(files, dates, moved) ==
  IF dates = <<>> THEN files
  ELSE LET onDate(task) == CompletedDate(task) = Head(dates)
       IN  ArchiveByDate(archiveTasks(files, Head(dates),
                                      SelectSeq(moved, onDate)),
                         Tail(dates), moved)

\* The cutoff dates the cleanup dialog sends: none, and the two days after
\* the day the server started on.
Cutoffs ==
  { Null, Some(DateString(1970, 1, 2)), Some(DateString(1970, 1, 3)) }

\* POST /api/archive/cleanup
CleanupArchive ==
  \E dt \in Arrivals, cutoffDate \in Cutoffs :
    LET ts == readTasks
        cutoffTime == GetTime([date |-> Val(cutoffDate), time |-> 0])
        toMove(task) ==
          /\ task.archived
          /\ task.completedAt # Null
          /\ GetTime(Val(task.completedAt)) < cutoffTime
        toKeep(task) == ~toMove(task)
        tasksToMove == SelectSeq(ts, toMove)
        marked == [k \in 1..Len(tasksToMove) |->
                     [archivedToFile |-> TRUE] @@ tasksToMove[k]]
        remainingTasks == SelectSeq(ts, toKeep)
        files == ArchiveByDate(archiveFiles, CompletedDates(marked), marked)
    IN  IF ~TruthySeq(cutoffDate)
          THEN Serve(dt, "cleanup", Null, cutoffDate, tasks,
                     Failed(400, "Cutoff date is required"))
        ELSE IF tasksToMove = <<>>
          THEN Serve(dt, "cleanup", Null, cutoffDate, tasks, OK)
        ELSE IF writeFails
          THEN Answer(dt, "cleanup", Null, cutoffDate, tasks, files,
                      Failed(500, "Failed to clean archive"))
        ELSE Answer(dt, "cleanup", Null, cutoffDate, remainingTasks, files,
                    OK)

\* tasks.json as an earlier run of the server left it: a plain task and a
\* daily appointment.
ArchiveStored ==
  << NewTask(StringOf(0),
             [NoBody EXCEPT !.description = Some(<<"a">>),
                            !.dueDate = Some(DateString(2025, 12, 31))],
             0),
     NewTask(StringOf(TickMs),
             [NoBody EXCEPT !.description = Some(<<"b">>),
                            !.dueDate = Some(DateString(2025, 10, 24)),
                            !.dueTime = Some("09:30"),
                            !.recurring = Some("daily"),
                            !.isAppointment = Some(TRUE),
                            !.workingDaysOnly = Some(TRUE)],
             TickMs) >>

ArchiveInit ==
  /\ tasks = ArchiveStored
  /\ archiveFiles = <<>>
  /\ now = MsPerDay - TickMs
  /\ req = [op |-> "none", id |-> Null, body |-> Null]
  /\ res = [status |-> 0, error |-> ""]
  /\ listed = Null
  /\ served = 0
  /\ readFails = FALSE
  /\ writeFails = FALSE
  /\ booted = MsPerDay - TickMs
  /\ handlers = <<>>
  /\ RecurIdle
  /\ StreakIdle
  /\ ReminderIdle
  /\ LockIdle
  /\ ClientIdle

ArchiveNext ==
  \/ StartTask
  \/ StopTask
  \/ CompleteTask
  \/ RestoreTask
  \/ DeleteTask
  \/ CleanupArchive

ArchiveSpec == ArchiveInit /\ [][ArchiveNext]_vars

-----------------------------------------------------------------------------
(* LoopSpec: requests for one stored task held by the event loop of one    *)
(* server process.  A handler is entered when the loop picks its request,  *)
(* reads the task (getTask), and returns after saveTask has read and       *)
(* written tasks.json.  The handlers are synchronous functions: they       *)
(* contain no await and pass no callback, so the loop picks the next       *)
(* request only when the handler it entered has returned.                  *)

NumHandlers == 2

\* Mutant: the loop picks a request while a handler is running, as it would
\* if the handlers awaited their file operations.
LoopFreeAlways == TRUE

\* The event loop is free to pick a request: no handler is running.
LoopFree == \A r \in DOMAIN handlers : handlers[r].pc # "running"

\* The task in progress that tasks.json holds when the requests arrive.
RunningTask ==
  [NewTask(StringOf(0),
           [NoBody EXCEPT !.description = Some(<<"a">>),
                          !.dueDate = Some(DateString(2025, 12, 31))],
           0)
     EXCEPT !.inProgress = TRUE, !.startedAt = Some(ToISOString(0))]

\* The requests held: stop, restore and two edits of the stored task (the
\* two request bodies with a due date), and a stop of a task that does not
\* exist.
LoopRequests ==
  { [op |-> "stop", id |-> i, body |-> NoBody] : i \in {StringOf(0), <<"x">>} }
    \cup
  { [op |-> "restore", id |-> StringOf(0), body |-> NoBody] }
    \cup
  { [op |-> "post", id |-> StringOf(0), body |-> b] :
      b \in { c \in Bodies : c.dueDate # Null } }

\* The task the handler of request h stores, from the task it read.
HandlerWrites(h) ==
  LET task == Val(h.found)
  IN  CASE h.op = "stop" ->
             [task EXCEPT !.timeSpent = @ + Elapsed(task, h.at),
                          !.inProgress = FALSE,
                          !.startedAt = Null,
                          !.updatedAt = ToISOString(h.at)]
        [] h.op = "restore" ->
             [task EXCEPT !.archived = FALSE,
                          !.completed = FALSE,
                          !.updatedAt = ToISOString(h.at)]
        [] h.op = "post" -> UpdatedTask(task, h.body, h.at)

\* The loop picks request r: its handler runs up to the task it reads, and
\* answers 404 at once when there is none.
Enter(r) ==
  /\ handlers[r].pc = "queued"
  /\ LoopFree
  /\ \E dt \in Delays :
       /\ now + dt <= MaxTicks * TickMs
       /\ now' = now + dt
       /\ LET found == getTask(handlers[r].id)
          IN  handlers' = [handlers EXCEPT
                ![r].pc = IF found = Null THEN "done" ELSE "running",
                ![r].found = found,
                ![r].at = now']
  /\ UNCHANGED <<tasks, archiveFiles, req, res, listed, served, readFails,
                 writeFails, booted>>
  /\ UNCHANGED <<recurVars, streakVars, reminderVars, lockVars,
                 clientVars>>

\* The handler of request r runs saveTask and returns.
Return(r) ==
  /\ handlers[r].pc = "running"
  /\ tasks' = saveTask(HandlerWrites(handlers[r]))
  /\ handlers' = [handlers EXCEPT ![r].pc = "done"]
  /\ UNCHANGED <<archiveFiles, now, req, res, listed, served, readFails,
                 writeFails, booted>>
  /\ UNCHANGED <<recurVars, streakVars, reminderVars, lockVars,
                 clientVars>>

LoopInit ==
  /\ tasks = <<RunningTask>>
  /\ archiveFiles = <<>>
  /\ now = 0
  /\ req = [op |-> "none", id |-> Null, body |-> Null]
  /\ res = [status |-> 0, error |-> ""]
  /\ listed = Null
  /\ served = 0
  /\ readFails = FALSE
  /\ writeFails = FALSE
  /\ booted = 0
  /\ handlers \in [1..NumHandlers ->
                     { [op |-> q.op, id |-> q.id, body |-> q.body,
                        pc |-> "queued", found |-> Null, at |-> 0] :
                       q \in LoopRequests }]
  /\ RecurIdle
  /\ StreakIdle
  /\ ReminderIdle
  /\ LockIdle
  /\ ClientIdle

LoopNext == \E r \in 1..NumHandlers : Enter(r) \/ Return(r)

LoopSpec == LoopInit /\ [][LoopNext]_vars

-----------------------------------------------------------------------------
(* ReminderSpec: the AppointmentReminder object of the page                *)
(* (public/js/appointmentReminder.js), localStorage and the local clock.   *)
(* A check runs when the page calls startCheckingReminders and then on     *)
(* every firing of its interval timer, so at any instant.                  *)

\* new Date(`${dueDate}T${dueTime || '00:00'}`).getTime(): the local time
\* named, in ms.  (dueDate and dueTime are well formed in the model.)
parseDueDateTime(dueDate, dueTime) ==
  LET hm == Split(IF TruthySeq(dueTime) THEN Val(dueTime)
                  ELSE <<"0", "0", ":", "0", "0">>, ":")
  IN  ParseDate(dueDate) * MsPerDay
        + (NumberOf(hm[1]) * 60 + NumberOf(hm[2])) * 60000

\* Mutant: the window closes at the due time, without the grace period.
InReminderWindowWithoutGrace(task, nowMs) ==
  LET dueDateTimeMs == parseDueDateTime(Val(task.dueDate), task.dueTime)
      reminderMinutes == IF TruthyNum(task.reminderMinutes)
                           THEN Val(task.reminderMinutes) ELSE 30
      reminderTimeMs == dueDateTimeMs - reminderMinutes * 60000
  IN  nowMs >= reminderTimeMs /\ nowMs <= dueDateTimeMs

\* The test of checkAndNotifyAppointments on the reminder window.
InReminderWindow(task, nowMs) ==
  LET dueDateTimeMs == parseDueDateTime(Val(task.dueDate), task.dueTime)
      reminderMinutes == IF TruthyNum(task.reminderMinutes)
                           THEN Val(task.reminderMinutes) ELSE 30
      reminderWindowMs == reminderMinutes * 60000
      reminderTimeMs == dueDateTimeMs - reminderWindowMs
      graceMs == 5 * 60000
  IN  nowMs >= reminderTimeMs /\ nowMs <= dueDateTimeMs + graceMs

\* The body of the forEach for one task: whether it shows the alert.
Notifies(task, ids, nowMs) ==
  /\ ~(~task.isAppointment \/ ~TruthySeq(task.dueDate)
         \/ ~TruthySeq(task.dueTime))
  /\ task.id \notin ids
  /\ InReminderWindow(task, nowMs)

RECURSIVE NotifiedFrom(_, _, _, _)
\* The ids alerted, in order, by the forEach from task i on, ids being
\* remindedTaskIds when task i is reached.
NotifiedFrom(ts, i, ids, nowMs) ==
  IF i > Len(ts) THEN <<>>
  ELSE IF Notifies(ts[i], ids, nowMs)
    THEN <<ts[i].id>> \o NotifiedFrom(ts, i + 1, ids \cup {ts[i].id}, nowMs)
  ELSE NotifiedFrom(ts, i + 1, ids, nowMs)

\* Mutant: the ids are not written with the date.
saveRemindedTasksWithoutIds(ids, nowMs) ==
  Some([date |-> ToDateString(nowMs \div MsPerDay), taskIds |-> {}])

\* saveRemindedTasks(): the item written to localStorage.
saveRemindedTasks(ids, nowMs) ==
  Some([date |-> ToDateString(nowMs \div MsPerDay), taskIds |-> ids])

\* loadRemindedTasks() in the constructor: the set it leaves in the object
\* and the item it leaves in localStorage.
loadRemindedTasks(item, nowMs) ==
  IF item = Null THEN [ids |-> {}, item |-> item]
  ELSE IF Val(item).date = ToDateString(nowMs \div MsPerDay)
    THEN [ids |-> Val(item).taskIds, item |-> item]
  ELSE [ids |-> {}, item |-> saveRemindedTasks({}, nowMs)]

MaxAlerts == 3

\* The tasks the page passes to the checks: an appointment without
\* reminderMinutes due at 00:31 of day 0, an appointment due at 00:02 of
\* day 1 with a lead of 15 minutes (its window spans midnight), a task that
\* is not an appointment, and appointments without due time or due date.
ApptTasks ==
  << [id |-> "a", isAppointment |-> TRUE,
      dueDate |-> Some(DateString(1970, 1, 1)),
      dueTime |-> Some(<<"0", "0", ":", "3", "1">>),
      reminderMinutes |-> Null],
     [id |-> "b", isAppointment |-> TRUE,
      dueDate |-> Some(DateString(1970, 1, 2)),
      dueTime |-> Some(<<"0", "0", ":", "0", "2">>),
      reminderMinutes |-> Some(15)],
     [id |-> "c", isAppointment |-> FALSE,
      dueDate |-> Some(DateString(1970, 1, 1)),
      dueTime |-> Some(<<"0", "0", ":", "3", "1">>),
      reminderMinutes |-> Some(30)],
     [id |-> "d", isAppointment |-> TRUE,
      dueDate |-> Some(DateString(1970, 1, 1)),
      dueTime |-> Null,
      reminderMinutes |-> Some(30)],
     [id |-> "e", isAppointment |-> TRUE,
      dueDate |-> Null,
      dueTime |-> Some(<<"0", "0", ":", "3", "1">>),
      reminderMinutes |-> Some(30)] >>

\* The instants at which something happens in the page: the last ms before
\* each of the two windows, their first ms, their last ms, the first ms
\* after them, midnight of day 1 and midnight of day 2.
Instants ==
  { m * 60000 - 1 : m \in {1, 1427} } \cup
  { m * 60000 : m \in {1, 36, 1427, 1440, 1447, 2880} } \cup
  { m * 60000 + 1 : m \in {36, 1447} }

\* Time passes.
Wait ==
  /\ \E t \in Instants : t > clock /\ clock' = t
  /\ lastCheck' = Null
  /\ UNCHANGED <<remindedTaskIds, reminders, alerts, resets>>
  /\ UNCHANGED <<serverVars, recurVars, streakVars, lockVars,
                 clientVars>>

\* The page is loaded again: new AppointmentReminder().
ReloadPage ==
  LET l == loadRemindedTasks(reminders, clock)
  IN  /\ remindedTaskIds' = l.ids
      /\ reminders' = l.item
      /\ lastCheck' = Null
      /\ UNCHANGED <<clock, alerts, resets>>
      /\ UNCHANGED <<serverVars, recurVars, streakVars, lockVars,
                 clientVars>>

\* checkAndNotifyAppointments(tasks), by startCheckingReminders or by its
\* interval timer.
checkAndNotifyAppointments ==
  \E ts \in {<<>>, ApptTasks} :
    LET fired == NotifiedFrom(ts, 1, remindedTaskIds, clock)
    IN  /\ Len(alerts) + Len(fired) <= MaxAlerts
        /\ remindedTaskIds' = remindedTaskIds \cup Range(fired)
        /\ reminders' = IF fired = <<>> THEN reminders
                        ELSE saveRemindedTasks(remindedTaskIds', clock)
        /\ alerts' = alerts \o [i \in 1..Len(fired) |->
                                  [id |-> fired[i], at |-> clock]]
        /\ lastCheck' = Some([tasks |-> ts, before |-> remindedTaskIds,
                              fired |-> Range(fired)])
        /\ UNCHANGED <<clock, resets>>
        /\ UNCHANGED <<serverVars, recurVars, streakVars, lockVars,
                 clientVars>>

\* resetTaskReminder(taskId).
resetTaskReminder ==
  \E taskId \in { ApptTasks[i].id : i \in 1..Len(ApptTasks) } :
    /\ remindedTaskIds' = remindedTaskIds \ {taskId}
    /\ reminders' = saveRemindedTasks(remindedTaskIds', clock)
    /\ resets' = resets \cup {clock \div MsPerDay}
    /\ lastCheck' = Null
    /\ UNCHANGED <<clock, alerts>>
    /\ UNCHANGED <<serverVars, recurVars, streakVars, lockVars,
                 clientVars>>

\* clearAllReminders().
clearAllReminders ==
  /\ remindedTaskIds' = {}
  /\ reminders' = saveRemindedTasks(remindedTaskIds', clock)
  /\ resets' = resets \cup {clock \div MsPerDay}
  /\ lastCheck' = Null
  /\ UNCHANGED <<clock, alerts>>
  /\ UNCHANGED <<serverVars, recurVars, streakVars, lockVars,
                 clientVars>>

ReminderNext ==
  \/ Wait
  \/ ReloadPage
  \/ checkAndNotifyAppointments
  \/ resetTaskReminder
  \/ clearAllReminders

ReminderInit ==
  /\ ReminderIdle /\ ServerIdle /\ RecurIdle /\ StreakIdle /\ LockIdle
  /\ ClientIdle

ReminderSpec == ReminderInit /\ [][ReminderNext]_vars

-----------------------------------------------------------------------------
(* LockSpec: server processes started on one data directory (server.js).   *)
(* Every call of fs and of process.kill is one step of its process; the    *)
(* operating system runs the steps of different processes in any order.    *)

NumProcs == 3

Procs == 1..NumProcs

\* process.kill(pid, 0) succeeds: the process with that pid has been started
\* and has neither exited nor been killed.
isProcessRunning(pid) == pc[pid] \notin {"off", "exited", "killed"}

\* Process p moves to step.
Goto(p, step) == pc' = [pc EXCEPT ![p] = step]

\* node server.js
Launch(p) ==
  /\ pc[p] = "off"
  /\ Goto(p, "exists")
  /\ UNCHANGED <<lock, seen>>
  /\ UNCHANGED <<serverVars, recurVars, streakVars, reminderVars,
                 clientVars>>

\* fs.existsSync(LOCK_FILE)
ExistsLock(p) ==
  /\ pc[p] = "exists"
  /\ Goto(p, IF lock = Null THEN "write" ELSE "read")
  /\ UNCHANGED <<lock, seen>>
  /\ UNCHANGED <<serverVars, recurVars, streakVars, reminderVars,
                 clientVars>>

\* fs.readFileSync(LOCK_FILE) and JSON.parse.  When the file has gone, the
\* error is caught, the unlinkSync of the catch block throws in its turn and
\* the outer catch block takes over.
ReadLock(p) ==
  /\ pc[p] = "read"
  /\ IF lock = Null
       THEN Goto(p, "failed") /\ UNCHANGED seen
       ELSE Goto(p, "probe") /\ seen' = [seen EXCEPT ![p] = Val(lock)]
  /\ UNCHANGED lock
  /\ UNCHANGED <<serverVars, recurVars, streakVars, reminderVars,
                 clientVars>>

\* isProcessRunning(lockInfo.pid), then process.exit(1) or on to the removal
\* of the stale lock.  No exit handler is registered yet.
ProbeLock(p) ==
  /\ pc[p] = "probe"
  /\ Goto(p, IF isProcessRunning(seen[p]) THEN "exited" ELSE "unlink")
  /\ UNCHANGED <<lock, seen>>
  /\ UNCHANGED <<serverVars, recurVars, streakVars, reminderVars,
                 clientVars>>

\* fs.unlinkSync(LOCK_FILE) of the stale lock; it throws when the file has
\* gone, as in ReadLock.
UnlinkLock(p) ==
  /\ pc[p] = "unlink"
  /\ IF lock = Null
       THEN Goto(p, "failed") /\ UNCHANGED lock
       ELSE Goto(p, "write") /\ lock' = Null
  /\ UNCHANGED seen
  /\ UNCHANGED <<serverVars, recurVars, streakVars, reminderVars,
                 clientVars>>

\* fs.writeFileSync(LOCK_FILE, { pid: process.pid, ... }); the handlers of
\* SIGINT, SIGTERM and exit are registered after it.
WriteLock(p) ==
  /\ pc[p] = "write"
  /\ lock' = Some(p)
  /\ Goto(p, "listen")
  /\ UNCHANGED seen
  /\ UNCHANGED <<serverVars, recurVars, streakVars, reminderVars,
                 clientVars>>

\* The lock file is written again with the port, and app.listen(PORT).
Listen(p) ==
  /\ pc[p] = "listen"
  /\ lock' = Some(p)
  /\ Goto(p, "serving")
  /\ UNCHANGED seen
  /\ UNCHANGED <<serverVars, recurVars, streakVars, reminderVars,
                 clientVars>>

\* cleanup() and process.exit: after SIGINT or SIGTERM, or in the outer
\* catch block.  The lock file found is removed, whoever wrote it.
Cleanup(p) ==
  /\ pc[p] \in {"listen", "serving", "failed"}
  /\ lock' = Null
  /\ Goto(p, "exited")
  /\ UNCHANGED seen
  /\ UNCHANGED <<serverVars, recurVars, streakVars, reminderVars,
                 clientVars>>

\* The process is killed (SIGKILL, power loss): no handler runs.
Kill(p) ==
  /\ pc[p] \in {"listen", "serving"}
  /\ Goto(p, "killed")
  /\ UNCHANGED <<lock, seen>>
  /\ UNCHANGED <<serverVars, recurVars, streakVars, reminderVars,
                 clientVars>>

LockInit ==
  /\ pc = [p \in Procs |-> "off"]
  /\ lock = Null
  /\ seen = [p \in Procs |-> 0]
  /\ ServerIdle
  /\ RecurIdle
  /\ StreakIdle
  /\ ReminderIdle
  /\ ClientIdle

LockNext ==
  \E p \in Procs :
    \/ Launch(p)
    \/ ExistsLock(p)
    \/ ReadLock(p)
    \/ ProbeLock(p)
    \/ UnlinkLock(p)
    \/ WriteLock(p)
    \/ Listen(p)
    \/ Cleanup(p)
    \/ Kill(p)

LockSpec == LockInit /\ [][LockNext]_vars

-----------------------------------------------------------------------------
(* ClientSpec: the page (public/js/app.js) and the server.  A click calls  *)
(* an async handler of App; each fetch the handler awaits is sent, handled *)
(* by the server at some later instant and resolved in the page, where the *)
(* handler continues.  Fetches in flight are handled and resolved in any   *)
(* order.                                                                  *)

MaxClicks == 3

\* What a route that ends with a write answers: the task, or the failure
\* of its catch block when writeTasks throws.
Saved(ts, task, failure) ==
  IF writeFails THEN [tasks |-> tasks, res |-> failure, task |-> Null]
  ELSE [tasks |-> ts, res |-> OK, task |-> task]

NotFound ==
  [tasks |-> tasks, res |-> Failed(404, "Task not found"), task |-> Null]

\* The route op of /api/tasks/:id handled at instant t (r is the random
\* draw of a successor's id): tasks.json after it, the status of the
\* response, and the task in its body.
Routed(op, id, t, r) ==
  CASE op = "start" ->
         LET local == StoppedOthers(readTasks, id)
             i == FindIndex(local, id)
             task == [local[i] EXCEPT !.inProgress = TRUE,
                                      !.startedAt = Some(ToISOString(t)),
                                      !.updatedAt = ToISOString(t)]
         IN  IF i = 0 THEN NotFound
             ELSE Saved(saveTask(task), Some(task),
                        Failed(500, "Failed to start task"))
    [] op = "stop" ->
         LET found == getTask(id)
             task == [Val(found) EXCEPT
                        !.timeSpent = @ + Elapsed(Val(found), t),
                        !.inProgress = FALSE,
                        !.startedAt = Null,
                        !.updatedAt = ToISOString(t)]
         IN  IF found = Null THEN NotFound
             ELSE Saved(saveTask(task), Some(task),
                        Failed(500, "Failed to stop task"))
    [] op = "complete" ->
         LET allTasks == readTasks
             taskIndex == FindIndex(allTasks, id)
             task == CompletedTask(allTasks[taskIndex], t)
             updated == [allTasks EXCEPT ![taskIndex] = task]
             written == IF Recurs(task)
                          THEN Append(updated, SuccessorTask(task, t, r))
                          ELSE updated
         IN  IF taskIndex = 0 THEN NotFound
             ELSE Saved(written, Some(task),
                        Failed(500, "Failed to complete task"))
    [] op = "delete" ->
         IF getTask(id) = Null THEN NotFound
         ELSE Saved(deleteTask(id), Null,
                    Failed(500, "Failed to delete task"))

\* TaskTimer.isRunning(): the interval is set.
isRunning == timer # Null

\* TaskTimer.start(taskId, startedAt, previousTimeSpent)
TimerStarted(taskId, startedAt, previousTimeSpent) ==
  Some([activeTaskId |-> taskId,
        startedAt |-> GetTime(Val(startedAt)),
        previousTimeSpent |-> previousTimeSpent])

\* A handler called for taskId that awaits the fetch op of id, just sent.
Call(handler, taskId, op, id) ==
  [handler |-> handler, taskId |-> taskId, op |-> op, id |-> id,
   at |-> "sent", ok |-> FALSE, task |-> Null]

\* A click handler is called and runs up to its first await.
Clicked(call) ==
  /\ Len(calls) < MaxClicks
  /\ calls' = Append(calls, call)
  /\ UNCHANGED <<activeTaskId, timer>>
  /\ UNCHANGED <<serverVars, recurVars, streakVars, reminderVars, lockVars>>

\* The tasks of the page's task list: those GET /api/tasks lists.
ListedIds == { GetTasks[i].id : i \in 1..Len(GetTasks) }

\* handleStartTask(taskId), up to the await of stopTask or of startTask.
ClickStart(taskId) ==
  IF isRunning /\ Val(timer).activeTaskId # <<>>
    THEN Clicked(Call("start", taskId, "stop", Val(timer).activeTaskId))
    ELSE Clicked(Call("start", taskId, "start", taskId))

\* handleStopTask(), up to the await of stopTask.
ClickStop ==
  /\ TruthySeq(activeTaskId)
  /\ Clicked(Call("stop", Val(activeTaskId), "stop", Val(activeTaskId)))

\* handleCompleteTask(taskId), up to the await of completeTask; taskId is
\* null for the button of the active task.
ClickDone(taskId) ==
  LET targetTaskId == IF TruthySeq(taskId) THEN taskId ELSE activeTaskId
  IN  /\ TruthySeq(targetTaskId)
      /\ Clicked(Call("complete", Val(targetTaskId), "complete",
                      Val(targetTaskId)))

\* handleDeleteTask(taskId), confirmed, up to the await of deleteTask.
ClickDelete(taskId) == Clicked(Call("delete", taskId, "delete", taskId))

\* The server handles the fetch that call k awaits.
Handle(k) ==
  /\ calls[k].at = "sent"
  /\ \E dt \in Delays, r \in RandomDraws :
       LET out == Routed(calls[k].op, calls[k].id, now + dt, r)
       IN  /\ now + dt <= booted + MaxTicks * TickMs
           /\ Len(out.tasks) <= MaxTasks
           /\ now' = now + dt
           /\ tasks' = out.tasks
           /\ req' = [op |-> calls[k].op, id |-> Some(calls[k].id),
                      body |-> Null]
           /\ res' = out.res
           /\ served' = served + 1
           /\ listed' = Null
           /\ calls' = [calls EXCEPT ![k].at = "answered",
                                     ![k].ok = (out.res.status = 200),
                                     ![k].task = out.task]
  /\ UNCHANGED <<archiveFiles, readFails, writeFails, booted, handlers>>
  /\ UNCHANGED <<activeTaskId, timer>>
  /\ UNCHANGED <<recurVars, streakVars, reminderVars, lockVars>>

\* The fetch call k awaits resolves and the handler runs on: to its next
\* await (startTask, after the stopTask of handleStartTask), or to its end;
\* a response that is not ok throws, and the catch block shows the error.
Resolve(k) ==
  LET c == calls[k]
      finished == [calls EXCEPT ![k].at = "done"]
  IN  /\ c.at = "answered"
      /\ IF ~c.ok
           THEN calls' = finished /\ UNCHANGED <<activeTaskId, timer>>
         ELSE IF c.handler = "start" /\ c.op = "stop"
           THEN /\ calls' = [calls EXCEPT ![k] =
                               Call("start", c.taskId, "start", c.taskId)]
                /\ UNCHANGED <<activeTaskId, timer>>
         ELSE IF c.handler = "start"
           THEN /\ activeTaskId' = Some(c.taskId)
                /\ timer' = TimerStarted(Val(c.task).id,
                                         Val(c.task).startedAt,
                                         Val(c.task).timeSpent)
                /\ calls' = finished
         ELSE IF c.handler = "stop"
           THEN /\ timer' = Null
                /\ activeTaskId' = Null
                /\ calls' = finished
         ELSE /\ IF activeTaskId = Some(c.taskId)
                   THEN timer' = Null /\ activeTaskId' = Null
                   ELSE UNCHANGED <<activeTaskId, timer>>
              /\ calls' = finished
      /\ UNCHANGED <<serverVars, recurVars, streakVars, reminderVars,
                     lockVars>>

\* Every handler called has returned.
Settled == \A k \in 1..Len(calls) : calls[k].at = "done"

\* The page is loaded again while no fetch is in flight: a new App and a
\* new TaskTimer, loadTasks, and resumeActiveTask on the tasks listed.
PageReload ==
  LET inProgress(task) == task.inProgress
      active == SelectSeq(GetTasks, inProgress)
  IN  /\ Settled
      /\ IF active # <<>> /\ Head(active).startedAt # Null
           THEN /\ activeTaskId' = Some(Head(active).id)
                /\ timer' = TimerStarted(Head(active).id,
                                         Head(active).startedAt,
                                         Head(active).timeSpent)
           ELSE activeTaskId' = Null /\ timer' = Null
      /\ UNCHANGED calls
      /\ UNCHANGED <<serverVars, recurVars, streakVars, reminderVars,
                     lockVars>>

\* tasks.json as an earlier run of the server left it: two tasks.
ClientStored ==
  << NewTask(StringOf(0),
             [NoBody EXCEPT !.description = Some(<<"a">>),
                            !.dueDate = Some(DateString(2025, 12, 31))],
             0),
     NewTask(StringOf(TickMs),
             [NoBody EXCEPT !.description = Some(<<"c">>)],
             TickMs) >>

ClientInit ==
  /\ tasks = ClientStored
  /\ archiveFiles = <<>>
  /\ now = TickMs
  /\ req = [op |-> "none", id |-> Null, body |-> Null]
  /\ res = [status |-> 0, error |-> ""]
  /\ listed = Null
  /\ served = 0
  /\ readFails = FALSE
  /\ writeFails = FALSE
  /\ booted = TickMs
  /\ handlers = <<>>
  /\ RecurIdle
  /\ StreakIdle
  /\ ReminderIdle
  /\ LockIdle
  /\ ClientIdle

ClientNext ==
  \/ \E taskId \in ListedIds : ClickStart(taskId)
  \/ ClickStop
  \/ \E taskId \in {Null} \cup { Some(id) : id \in ListedIds } :
       ClickDone(taskId)
  \/ \E taskId \in StoredIds : ClickDelete(taskId)
  \/ \E k \in 1..Len(calls) : Handle(k)
  \/ \E k \in 1..Len(calls) : Resolve(k)
  \/ PageReload

ClientSpec == ClientInit /\ [][ClientNext]_vars

-----------------------------------------------------------------------------
(* Claims about the task store (Spec).  A claim about one request is an    *)
(* action property of the step that serves it: req' names the request,     *)
(* res' its response, tasks and tasks' are tasks.json before and after.    *)

IdsOf(ts) == { ts[i].id : i \in 1..Len(ts) }

\* The first task stored under id.
TaskOf(ts, id) == ts[FindIndex(ts, id)]

InProgressCount(ts) == Cardinality({ i \in 1..Len(ts) : ts[i].inProgress })

\* The step serves the request op with success.
Served(op) == req'.op = op /\ res'.status = 200

\* The milliseconds an ISO timestamp names, counting calendar days from
\* 1970-01-01 one by one.
IsoMs(iso) ==
  LET k == CHOOSE k \in 0..(1 + (MaxTicks * TickMs) \div MsPerDay) :
             DaysLater(<<1970, 1, 1>>, k) = FieldsOf(iso.date)
  IN  k * MsPerDay + iso.time

\* The whole seconds from the task's startedAt to the instant ms.
WholeSecondsSince(task, ms) ==
  CHOOSE n \in 0..(MaxTicks * TickMs) :
    n * 1000 <= ms - IsoMs(Val(task.startedAt))
      /\ ms - IsoMs(Val(task.startedAt)) < (n + 1) * 1000

\* C1: at most one task in tasks.json has inProgress = true.
AtMostOneInProgress == InProgressCount(tasks) <= 1

\* C2: timeSpent of every task is a non-negative integer that no request
\* decreases, and every stop and complete adds a non-negative whole number
\* of seconds to it.
TimeSpentNeverDecreases ==
  [][/\ \A i \in 1..Len(tasks') : tasks'[i].timeSpent \in Nat
     /\ \A id \in IdsOf(tasks) \cap IdsOf(tasks') :
          TaskOf(tasks', id).timeSpent >= TaskOf(tasks, id).timeSpent
     /\ (Served("stop") \/ Served("complete")) =>
          (TaskOf(tasks', Val(req'.id)).timeSpent
             - TaskOf(tasks, Val(req'.id)).timeSpent) \in Nat]_vars

\* A stop has just added a second to a task that ran for 1.5 seconds.
TimeSpentWitness ==
  /\ req.op = "stop" /\ res.status = 200
  /\ TaskOf(tasks, Val(req.id)).timeSpent >= 1

\* C3: stop on an existing task adds exactly the whole seconds since
\* startedAt when the task is in progress and nothing when it is not; the
\* task is stored with inProgress = false and startedAt = null, and no other
\* task changes.
StopAccrues ==
  [][Served("stop") =>
       LET i == FindIndex(tasks, Val(req'.id))
           old == tasks[i]
           new == tasks'[i]
       IN  /\ i > 0
           /\ Len(tasks') = Len(tasks)
           /\ new.timeSpent =
                IF old.inProgress
                  THEN old.timeSpent + WholeSecondsSince(old, now')
                  ELSE old.timeSpent
           /\ ~new.inProgress
           /\ new.startedAt = Null
           /\ new.id = old.id
           /\ \A j \in 1..Len(tasks) : j # i => tasks'[j] = tasks[j]]_vars

\* A stop 1.5 seconds after the start has stored the task with timeSpent 1,
\* beside another task.
StopAccruesWitness ==
  /\ req.op = "stop" /\ res.status = 200
  /\ Len(tasks) >= 2
  /\ LET task == TaskOf(tasks, Val(req.id))
     IN  task.timeSpent = 1 /\ ~task.inProgress /\ task.startedAt = Null
           /\ IsoMs(task.updatedAt) >= IsoMs(task.createdAt) + 1000

\* The sequence holds the task.
Holds(ts, task) == \E k \in 1..Len(ts) : ts[k] = task

\* C4: complete on an existing task accrues elapsed time as stop does and
\* stores the task with completed = true, archived = true, inProgress =
\* false, startedAt = null and completedAt = now, so that GET /api/tasks no
\* longer returns it and GET /api/tasks/archived does.
CompleteArchives ==
  [][Served("complete") =>
       LET i == FindIndex(tasks, Val(req'.id))
           old == tasks[i]
           new == tasks'[i]
       IN  /\ i > 0
           /\ new.timeSpent =
                IF old.inProgress
                  THEN old.timeSpent + WholeSecondsSince(old, now')
                  ELSE old.timeSpent
           /\ new.completed /\ new.archived
           /\ ~new.inProgress /\ new.startedAt = Null
           /\ new.completedAt # Null /\ IsoMs(Val(new.completedAt)) = now'
           /\ new.id = old.id
           /\ ~Holds(GetTasks', new)
           /\ Holds(GetArchivedTasks', new)]_vars

\* A task that ran for 1.5 seconds has been completed: it is archived with
\* timeSpent 1 and completedAt the instant of the request.
CompleteArchivesWitness ==
  /\ req.op = "complete" /\ res.status = 200
  /\ LET task == TaskOf(tasks, Val(req.id))
     IN  /\ task.timeSpent = 1 /\ task.archived /\ task.completed
         /\ IsoMs(Val(task.completedAt)) = now
         /\ Holds(GetArchivedTasks, task) /\ ~Holds(GetTasks, task)

\* The due date the recurrence rule names for a stored task.
RuleDueDate(task) ==
  LET f == FieldsOf(Val(task.dueDate))
      n == IF task.recurring = Some("weekly") THEN DaysLater(f, 7)
           ELSE IF task.workingDaysOnly THEN EarliestWorkingDayAfter(f)
           ELSE NextCalendarDay(f)
  IN  Some(DateString(n[1], n[2], n[3]))

\* C5: complete adds exactly one successor if and only if the completed
\* task has a recurrence and a due date; the successor has the next due
\* date of the recurrence rule, the descriptive fields of the completed
\* task, and fresh timer and lifecycle fields.  A recurring task without a
\* due date spawns nothing, and calculateNextDueDate returns an absent date
\* unchanged.
CompleteSpawnsSuccessor ==
  [][Served("complete") =>
       LET i == FindIndex(tasks, Val(req'.id))
           old == tasks[i]
           succ == tasks'[Len(tasks')]
       IN  /\ \A r \in {Null, Some("daily"), Some("weekly")}, w \in BOOLEAN :
                calculateNextDueDate(Null, r, w) = Null
           /\ \A j \in 1..Len(tasks) : j # i => tasks'[j] = tasks[j]
           /\ IF old.recurring # Null /\ old.dueDate # Null
                THEN /\ Len(tasks') = Len(tasks) + 1
                     /\ succ.dueDate = RuleDueDate(old)
                     /\ \A f \in {"description", "dueTime", "priority",
                                  "recurring", "details", "links",
                                  "isAppointment", "reminderMinutes",
                                  "workingDaysOnly"} : succ[f] = old[f]
                     /\ ~succ.completed /\ ~succ.archived /\ ~succ.inProgress
                     /\ succ.startedAt = Null /\ succ.timeSpent = 0
                     /\ succ.completedAt = Null
                ELSE Len(tasks') = Len(tasks)]_vars

\* The daily working-days appointment due on Friday 2025-10-24 has been
\* completed and its successor, due on Monday 2025-10-27, is stored last.
CompleteSpawnsSuccessorWitness ==
  /\ req.op = "complete" /\ res.status = 200
  /\ Len(tasks) >= 2
  /\ LET task == TaskOf(tasks, Val(req.id))
         succ == tasks[Len(tasks)]
     IN  /\ task.completed /\ task.recurring = Some("daily")
         /\ task.dueDate = Some(DateString(2025, 10, 24))
         /\ succ.dueDate = Some(DateString(2025, 10, 27))
         /\ succ.reminderMinutes = Some(15) /\ succ.isAppointment
         /\ ~succ.completed /\ succ.timeSpent = 0

\* The step serves one more request, of kind op.
Handles(op) == served' = served + 1 /\ req'.op = op

\* A request body POST /api/tasks must refuse: the description is missing or
\* blank, or a priority, a link or a recurrence is given and is not one the
\* server knows.
Malformed(body) ==
  \/ body.description = Null
  \/ \A i \in 1..Len(Val(body.description)) : Val(body.description)[i] = " "
  \/ body.priority # Null /\ Val(body.priority) \notin {"low", "medium", "high"}
  \/ body.links # Null /\ Range(Val(body.links)) \ ValidURLs # {}
  \/ body.recurring # Null /\ Val(body.recurring) \notin {"daily", "weekly"}

\* C15: POST /api/tasks with a missing or blank description, a priority
\* outside {low, medium, high}, a link that is not a valid URL or a
\* recurring value outside {daily, weekly} answers 400 with a message and
\* leaves tasks.json as it was.
PostRefusesMalformed ==
  [][(Handles("post") /\ Malformed(Val(req'.body))) =>
       /\ res'.status = 400
       /\ res'.error # ""
       /\ tasks' = tasks]_vars

\* A POST with a link that is not a URL, under the id of a stored task, was
\* answered 400 and the task is stored as it was created.
PostRefusesMalformedWitness ==
  /\ req.op = "post"
  /\ res = Failed(400, "Invalid URL")
  /\ req.id # Null
  /\ Val(req.id) \in IdsOf(tasks)
  /\ TaskOf(tasks, Val(req.id)).links = <<>>

\* C16: start, stop, complete, restore and delete with an id that no task
\* of tasks.json has answer 404 with a message and leave tasks.json as it
\* was, the inProgress and startedAt of every task included.
UnknownIdNotFound ==
  [][\A op \in {"start", "stop", "complete", "restore", "delete"} :
       (Handles(op) /\ Val(req'.id) \notin IdsOf(tasks)) =>
         /\ res'.status = 404
         /\ res'.error # ""
         /\ tasks' = tasks]_vars

\* A start with an unknown id was answered 404 while a task was in progress,
\* and that task is in progress still.
UnknownIdNotFoundWitness ==
  /\ req.op = "start"
  /\ res.status = 404
  /\ Val(req.id) \notin IdsOf(tasks)
  /\ InProgressCount(tasks) = 1

\* C17: when tasks.json cannot be read, GET /api/tasks answers 200 with an
\* empty list; when it cannot be written, a POST /api/tasks that passes
\* validation answers 400 with a message, and start, stop, complete, restore
\* and delete of a task they find answer 500 with a message.
StorageFailuresSurface ==
  [][/\ (Handles("get") /\ readFails) =>
          (res'.status = 200 /\ listed' = Some(<<>>))
     /\ (Handles("post") /\ writeFails /\ ~Malformed(Val(req'.body))) =>
          (res'.status = 400 /\ res'.error # "")
     /\ \A op \in {"start", "stop", "complete", "restore", "delete"} :
          (Handles(op) /\ writeFails /\ ~readFails
             /\ Val(req'.id) \in IdsOf(tasks)) =>
            (res'.status = 500 /\ res'.error # "")]_vars

\* tasks.json holds a task and cannot be read: a GET was answered with the
\* empty list.
StorageFailuresSurfaceWitness ==
  /\ readFails
  /\ tasks # <<>>
  /\ req.op = "get"
  /\ res.status = 200
  /\ listed = Some(<<>>)

\* C20: a POST /api/tasks that succeeds with the id of a stored task leaves
\* that task's id, inProgress, startedAt, timeSpent, completed, archived,
\* completedAt and createdAt as they were, sets its updatedAt to the time of
\* the request, and leaves every other task and the number of tasks as they
\* were.
EditKeepsTimer ==
  [][(Handles("post") /\ res'.status = 200 /\ req'.id # Null
        /\ Val(req'.id) \in IdsOf(tasks)) =>
       LET i == FindIndex(tasks, Val(req'.id))
           old == tasks[i]
           new == tasks'[i]
       IN  /\ Len(tasks') = Len(tasks)
           /\ \A j \in 1..Len(tasks) : j # i => tasks'[j] = tasks[j]
           /\ new.id = old.id
           /\ new.inProgress = old.inProgress
           /\ new.startedAt = old.startedAt
           /\ new.timeSpent = old.timeSpent
           /\ new.completed = old.completed
           /\ new.archived = old.archived
           /\ new.completedAt = old.completedAt
           /\ new.createdAt = old.createdAt
           /\ IsoMs(new.updatedAt) = now']_vars

\* Of two tasks stored, the one in progress was edited after it was created:
\* it is in progress still, with the startedAt of its start.
EditKeepsTimerWitness ==
  /\ req.op = "post" /\ res.status = 200
  /\ req.id # Null
  /\ Len(tasks) = 2
  /\ Val(req.id) \in IdsOf(tasks)
  /\ LET task == TaskOf(tasks, Val(req.id))
     IN  /\ task.inProgress
         /\ task.startedAt # Null
         /\ IsoMs(task.updatedAt) > IsoMs(Val(task.startedAt))
         /\ task.priority = "high"

-----------------------------------------------------------------------------
(* Claims about requests held together by the event loop (LoopSpec)        *)

\* C18 as stated: two requests handled by the same process can interleave
\* their read and their write of tasks.json: while the handler of one
\* request is between its read and its write, the handler of any other
\* queued request can be entered.
HandlersInterleave ==
  \A r, q \in DOMAIN handlers :
    (handlers[r].pc = "running" /\ handlers[q].pc = "queued") =>
      ENABLED Enter(q)

\* C18 as amended: requests handled by the same process do not interleave:
\* a handler writes tasks.json while the task it read is still the task
\* stored, and its write changes that task only, so that no change made by
\* an earlier request is lost.
HandlersRunToCompletion ==
  [][\A r \in DOMAIN handlers :
       (handlers[r].pc = "running" /\ handlers'[r].pc = "done") =>
         /\ handlers[r].found = getTask(handlers[r].id)
         /\ \A q \in DOMAIN handlers : q # r => handlers[q].pc # "running"
         /\ tasks' = [tasks EXCEPT ![1] = HandlerWrites(handlers[r])]]_vars

\* A stop served at 1.5 s and an edit served after it, held together: the
\* task stored carries the second the stop added and the priority the edit
\* set.
HandlersRunToCompletionWitness ==
  /\ DOMAIN handlers = 1..NumHandlers
  /\ handlers[1].op = "stop" /\ handlers[1].pc = "done"
  /\ handlers[2].op = "post" /\ handlers[2].pc = "done"
  /\ handlers[1].at = TickMs /\ handlers[2].at >= handlers[1].at
  /\ handlers[2].found # Null /\ ~Val(handlers[2].found).inProgress
  /\ tasks[1].timeSpent = 1
  /\ ~tasks[1].inProgress
  /\ tasks[1].priority = "high"

-----------------------------------------------------------------------------
(* Claims about the recurrence rule (RecurSpec)                            *)

\* C6: for every due date, a daily recurrence with working-days-only gives
\* the earliest Monday-to-Friday date strictly after the due date, never a
\* Saturday or Sunday (Friday 2025-10-24 gives Monday 2025-10-27); without
\* the flag it gives exactly the next calendar day.
DailyRecurrence ==
  (rSteps > 0 /\ rRecurring = Some("daily") /\ rPrev # Null) =>
    /\ rDue # Null
    /\ WellFormedDate(Val(rDue))
    /\ IF rWorkingDaysOnly
         THEN /\ FieldsOf(Val(rDue)) = EarliestWorkingDayAfter(FieldsOf(Val(rPrev)))
              /\ ~IsWeekend(FieldsOf(Val(rDue)))
         ELSE FieldsOf(Val(rDue)) = NextCalendarDay(FieldsOf(Val(rPrev)))
    /\ (rWorkingDaysOnly /\ rPrev = Some(DateString(2025, 10, 24)))
         => rDue = Some(DateString(2025, 10, 27))

\* A Friday due date whose working-days successor is the Monday after.
DailyRecurrenceWitness ==
  /\ rSteps > 0 /\ rRecurring = Some("daily") /\ rWorkingDaysOnly
  /\ rPrev = Some(DateString(2025, 10, 24))
  /\ rDue = Some(DateString(2025, 10, 27))

\* C7: for every due date, a weekly recurrence gives the date exactly seven
\* calendar days later, on the same weekday, across month and year
\* boundaries and whatever the working-days-only flag.
WeeklyRecurrence ==
  (rSteps > 0 /\ rRecurring = Some("weekly") /\ rPrev # Null) =>
    /\ rDue # Null
    /\ WellFormedDate(Val(rDue))
    /\ FieldsOf(Val(rDue)) = DaysLater(FieldsOf(Val(rPrev)), 7)
    /\ Zeller(FieldsOf(Val(rDue))) = Zeller(FieldsOf(Val(rPrev)))

\* A Saturday at the end of a year, with the flag set: the next Saturday
\* falls in the next year.
WeeklyRecurrenceWitness ==
  /\ rSteps > 0 /\ rRecurring = Some("weekly") /\ rWorkingDaysOnly
  /\ rPrev = Some(DateString(2024, 12, 28))
  /\ rDue = Some(DateString(2025, 1, 4))
  /\ IsWeekend(FieldsOf(Val(rDue)))

-----------------------------------------------------------------------------
(* Claims about the streak counter (StreakSpec)                            *)

\* The step is a call of recordTaskCompletion: one more completion is
\* recorded on the current day.
CompletionStep == today' = today /\ done'[today + 1] = done[today + 1] + 1

\* The latest day, up to the current one, with a recorded completion.
LatestRecordedDay(d) ==
  /\ d \in 0..today
  /\ done[d + 1] > 0
  /\ \A e \in (d + 1)..today : done[e + 1] = 0

\* C8: completing fewer than 3 tasks in a day does not start or extend a
\* streak: whenever currentStreak grows, through a completion or a page
\* reload, the latest day with recorded completions has at least 3 of them.
StreakNeedsThree ==
  [][currentStreak' > currentStreak =>
       \E d \in 0..today : LatestRecordedDay(d) /\ done'[d + 1] >= 3]_vars

\* C9: a completion on the day already recorded as lastCompletedDate adds
\* one to tasksCompletedToday and changes currentStreak only when the count
\* reaches exactly 3, and then only from 0 to 1; it returns true exactly
\* when the count reaches 3, which is the third completion of that day.
SameDayCompletion ==
  [][(CompletionStep /\ lastCompletedDate = Some(ToDateString(today))) =>
       /\ tasksCompletedToday' = tasksCompletedToday + 1
       /\ tasksCompletedToday' = done'[today + 1]
       /\ currentStreak' # currentStreak =>
            (tasksCompletedToday' = 3 /\ currentStreak = 0 /\ currentStreak' = 1)
       /\ (tasksCompletedToday' = 3 /\ currentStreak = 0) => currentStreak' = 1
       /\ returned' = (done'[today + 1] = 3)
       /\ lastCompletedDate' = lastCompletedDate]_vars

\* A fourth completion of a day has been recorded, the streak stands at 1
\* and the call returned false.
SameDayCompletionWitness ==
  /\ lastCompletedDate = Some(ToDateString(today))
  /\ tasksCompletedToday = 4 /\ done[today + 1] = 4
  /\ currentStreak = 1
  /\ returned = FALSE

SkippedDayBreaksChain ==
  [][(today' = today /\ \E d \in 0..today : LatestRecordedDay(d) /\ d + 1 < today)
       => currentStreak' = 0]_vars


-----------------------------------------------------------------------------
(* Claims about the appointment reminder (ReminderSpec)                    *)

\* The local instant, in ms, that a due date and a due time "HH:MM" name,
\* counted on the calendar from 1 January 1970.
DueInstant(task) ==
  LET k == CHOOSE k \in 0..7 :
             DaysLater(<<1970, 1, 1>>, k) = FieldsOf(Val(task.dueDate))
      hh == NumberOf(SubSeq(Val(task.dueTime), 1, 2))
      mm == NumberOf(SubSeq(Val(task.dueTime), 4, 5))
  IN  ((k * 24 + hh) * 60 + mm) * 60000

\* The lead of a task in minutes: reminderMinutes, 30 when unset.
LeadOf(task) ==
  IF task.reminderMinutes = Null THEN 30 ELSE Val(task.reminderMinutes)

\* The task is due an alert at instant t, given the reminded set.
DueAlert(task, reminded, t) ==
  /\ task.isAppointment
  /\ task.dueDate # Null
  /\ task.dueTime # Null
  /\ task.id \notin reminded
  /\ DueInstant(task) - LeadOf(task) * 60000 <= t
  /\ t <= DueInstant(task) + 5 * 60000

\* The number of alerts shown for id on day d.
AlertsOn(id, d) ==
  Cardinality({ i \in 1..Len(alerts) :
                  alerts[i].id = id /\ alerts[i].at \div MsPerDay = d })

\* C12: at a check, an alert fires for a task exactly when the task is an
\* appointment with a due date and a due time, is not in the reminded set,
\* and the current time lies in [due - lead, due + 5 minutes], the lead
\* being reminderMinutes or 30 when unset.
AlertExactlyInWindow ==
  lastCheck # Null =>
    LET c == Val(lastCheck)
    IN  /\ c.fired = { c.tasks[i].id : i \in
                         { j \in 1..Len(c.tasks) :
                             DueAlert(c.tasks[j], c.before, clock) } }
        /\ \A id \in c.fired :
             \E i \in 1..Len(alerts) : alerts[i] = [id |-> id, at |-> clock]

\* A check at the last ms of the window of "b" (due 00:02 of day 1, lead
\* 15 minutes) alerted for "b" and for no other task passed.
AlertExactlyInWindowWitness ==
  /\ lastCheck # Null
  /\ Len(Val(lastCheck).tasks) = 5
  /\ Val(lastCheck).fired = {"b"}
  /\ clock = (24 * 60 + 2 + 5) * 60000

\* C13: on a day without a call of resetTaskReminder or clearAllReminders,
\* whatever the checks and page reloads, at most one alert is shown for a
\* task id.
OneAlertPerDay ==
  \A d \in 0..(clock \div MsPerDay) :
    d \notin resets =>
      \A i \in 1..Len(ApptTasks) : AlertsOn(ApptTasks[i].id, d) <= 1

\* A check has just run inside the window of "a" on a day without resets,
\* with "a" in the reminded set restored from localStorage by a reload after
\* its alert, and it showed nothing.
OneAlertPerDayWitness ==
  /\ lastCheck # Null
  /\ Len(Val(lastCheck).tasks) = 5
  /\ Val(lastCheck).fired = {}
  /\ DueAlert(ApptTasks[1], {}, clock)
  /\ AlertsOn("a", 0) = 1
  /\ alerts[Len(alerts)].at < clock
  /\ reminders = Some([date |-> ToDateString(0), taskIds |-> {"a"}])
  /\ resets = {}

\* C14: the reminded set resets with the calendar day: once a check has run
\* on a day, every id in the set in memory was alerted on that day, and so
\* was every id stored in localStorage under that day's date.
RemindedSetResetsDaily ==
  LET d == clock \div MsPerDay
  IN  /\ lastCheck # Null =>
           \A id \in remindedTaskIds : AlertsOn(id, d) >= 1
      /\ (reminders # Null /\ Val(reminders).date = ToDateString(d)) =>
           \A id \in Val(reminders).taskIds : AlertsOn(id, d) >= 1


-----------------------------------------------------------------------------
(* Claims about the single-instance lock (LockSpec)                        *)

\* C19: for one data directory at most one server process at a time is
\* past the lock-file check and serving, also when processes start at the
\* same moment.
SingleInstance ==
  Cardinality({ p \in DOMAIN pc : pc[p] \in {"listen", "serving"} }) <= 1

-----------------------------------------------------------------------------
(* Claims about the archive files (ArchiveSpec)                            *)

\* The tasks the archive files hold, file after file.
Filed(files) == FlattenFiles(files)

\* The number of tasks stored under id, in tasks.json and the archive files.
Copies(id, ts, files) ==
  Cardinality({ i \in 1..Len(ts) : ts[i].id = id })
    + Cardinality({ i \in 1..Len(Filed(files)) : Filed(files)[i].id = id })

\* The milliseconds from 1970-01-01 to midnight (UTC) of a "YYYY-MM-DD" date,
\* counting calendar days one by one.
MidnightMs(date) ==
  MsPerDay * (CHOOSE k \in 0..(2 + (MaxTicks * TickMs) \div MsPerDay) :
                DaysLater(<<1970, 1, 1>>, k) = FieldsOf(date))

\* The task is archived and was completed before the cutoff date.
CompletedBefore(task, cutoff) ==
  /\ task.archived
  /\ task.completedAt # Null
  /\ IsoMs(Val(task.completedAt)) < MidnightMs(cutoff)

\* YYYYMMDD of the day the task was completed on, as a number.
CompletionDay(task) ==
  LET f == FieldsOf(Val(task.completedAt).date)
  IN  f[1] * 10000 + f[2] * 100 + f[3]

\* The archive file of the task's completion date holds the task, marked as
\* moved to a file and otherwise as it was stored.
FiledByCompletionDate(files, task) ==
  \E k \in 1..Len(files) :
    /\ NumberOf(files[k].path) = CompletionDay(task)
    /\ \E i \in 1..Len(files[k].tasks) :
         LET moved == files[k].tasks[i]
         IN  /\ moved.archivedToFile
             /\ [f \in DOMAIN task |-> moved[f]] = task

\* Every archive file is still there and begins with the tasks it held.
FilesKept(before, after) ==
  /\ Len(before) <= Len(after)
  /\ \A k \in 1..Len(before) :
       /\ after[k].path = before[k].path
       /\ Len(before[k].tasks) <= Len(after[k].tasks)
       /\ SubSeq(after[k].tasks, 1, Len(before[k].tasks)) = before[k].tasks

\* C21: a cleanup with a cutoff date moves exactly the archived tasks of
\* tasks.json completed before the cutoff into the archive file of their
\* completion date, leaves the other tasks of tasks.json as they were, and
\* every id is held as many times afterwards, in tasks.json and the archive
\* files together, as before; a cleanup without a cutoff date changes nothing.
CleanupMovesCompleted ==
  [][Handles("cleanup") =>
       IF req'.body = Null
         THEN tasks' = tasks /\ archiveFiles' = archiveFiles
         ELSE LET cutoff == Val(req'.body)
                  moves(task) == CompletedBefore(task, cutoff)
                  stays(task) == ~CompletedBefore(task, cutoff)
              IN  /\ res'.status = 200
                  /\ tasks' = SelectSeq(tasks, stays)
                  /\ \A i \in 1..Len(tasks) :
                       moves(tasks[i]) =>
                         FiledByCompletionDate(archiveFiles', tasks[i])
                  /\ FilesKept(archiveFiles, archiveFiles')
                  /\ Len(Filed(archiveFiles'))
                       = Len(Filed(archiveFiles))
                           + Len(SelectSeq(tasks, moves))
                  /\ \A id \in IdsOf(tasks) \cup IdsOf(Filed(archiveFiles))
                                \cup IdsOf(tasks')
                                \cup IdsOf(Filed(archiveFiles')) :
                       Copies(id, tasks', archiveFiles')
                         = Copies(id, tasks, archiveFiles)]_vars

\* A cleanup has moved tasks completed on two days into two archive files
\* and left a task in tasks.json.
CleanupMovesCompletedWitness ==
  /\ req.op = "cleanup"
  /\ res.status = 200
  /\ Len(archiveFiles) = 2
  /\ tasks # <<>>

-----------------------------------------------------------------------------
(* Claims about the streak counter over whole runs (StreakSpec)            *)

\* The number of consecutive days, ending at day d, on each of which at
\* least 3 completions were recorded.
QualifyingDays(d) ==
  CHOOSE n \in 0..(d + 1) :
    /\ \A e \in (d - n + 1)..d : done[e + 1] >= 3
    /\ n <= d => done[d - n + 1] < 3

\* C22: currentStreak never exceeds the number of consecutive calendar
\* days, ending at the latest day with a recorded completion, on which at
\* least 3 completions were recorded.
StreakCountsQualifyingDays ==
  \A d \in 0..today :
    LatestRecordedDay(d) => currentStreak <= QualifyingDays(d)

\* The tasks of a list stored under id.
WithId(ts, id) ==
  LET same(t) == t.id = id
  IN  SelectSeq(ts, same)

\* C23: restore of a task held in tasks.json succeeds, clears archived and
\* completed, sets updatedAt to the instant of the request and changes no
\* other field (timeSpent is kept) and no other task; the task is then
\* listed by GET /api/tasks and no longer, from tasks.json, by GET
\* /api/tasks/archived, so that complete followed by restore leaves the task
\* active with the timeSpent it had after completion.
RestoreReactivates ==
  [][(Handles("restore") /\ Val(req'.id) \in IdsOf(tasks)) =>
       LET id == Val(req'.id)
           k == FindIndex(tasks, id)
           before == tasks[k]
           after == tasks'[k]
       IN  /\ res'.status = 200
           /\ Len(tasks') = Len(tasks)
           /\ \A i \in 1..Len(tasks) : i # k => tasks'[i] = tasks[i]
           /\ ~after.archived /\ ~after.completed
           /\ IsoMs(after.updatedAt) = now'
           /\ \A f \in DOMAIN before \ {"archived", "completed", "updatedAt"} :
                after[f] = before[f]
           /\ DOMAIN after = DOMAIN before
           /\ after.timeSpent = before.timeSpent
           /\ Holds(GetTasks', after)
           /\ before.archived => Holds(GetArchivedTasks, before)
           /\ Len(WithId(GetArchivedTasks', id))
                = Len(WithId(readArchivedTasks, id))
           /\ (req.op = "complete" /\ res.status = 200 /\ req.id = req'.id) =>
                /\ before.archived /\ before.completed
                /\ Head(WithId(GetTasks', id)) = after]_vars

\* A task timed for a second and then completed has been restored: it is
\* listed as active with its second and its completion time.
RestoreReactivatesWitness ==
  /\ req.op = "restore" /\ res.status = 200
  /\ \E i \in 1..Len(GetTasks) :
       /\ GetTasks[i].id = Val(req.id)
       /\ GetTasks[i].timeSpent = 1
       /\ GetTasks[i].completedAt # Null
  /\ \A i \in 1..Len(GetArchivedTasks) : GetArchivedTasks[i].id # Val(req.id)

\* The ids of the tasks GET /api/tasks/archived answers with.
ArchivedListIds == IdsOf(GetArchivedTasks)

\* C24: restore and delete succeed for every task that GET
\* /api/tasks/archived lists, the tasks cleanup moved to archive files
\* included: after restore the task is listed by GET /api/tasks, after
\* delete it is listed by neither GET.
ArchivedTasksManageable ==
  [][/\ (Handles("restore") /\ Val(req'.id) \in ArchivedListIds) =>
          /\ res'.status = 200
          /\ Val(req'.id) \in IdsOf(GetTasks')
     /\ (Handles("delete") /\ Val(req'.id) \in ArchivedListIds) =>
          /\ res'.status = 200
          /\ Val(req'.id) \notin IdsOf(GetTasks')
          /\ Val(req'.id) \notin IdsOf(GetArchivedTasks')]_vars

-----------------------------------------------------------------------------
(* Claims about the timer and the flags of a task over its life (Spec and  *)
(* ArchiveSpec)                                                            *)

\* C25: no in-progress time is discarded: a task stored as in progress is,
\* after any request that keeps it in tasks.json, either still in progress
\* since the same startedAt with the same timeSpent, or no longer in
\* progress with the whole seconds since its startedAt added to timeSpent;
\* so timeSpent is the sum of the whole seconds of the intervals ended.
NoTimeDiscarded ==
  [][\A i \in 1..Len(tasks) :
       (tasks[i].inProgress /\ tasks[i].startedAt # Null
          /\ FindIndex(tasks, tasks[i].id) = i
          /\ tasks[i].id \in IdsOf(tasks')) =>
         LET after == TaskOf(tasks', tasks[i].id)
         IN  IF after.inProgress
               THEN /\ after.startedAt = tasks[i].startedAt
                    /\ after.timeSpent = tasks[i].timeSpent
               ELSE after.timeSpent
                      = tasks[i].timeSpent + WholeSecondsSince(tasks[i], now')
    ]_vars

\* C26: in tasks.json a task has inProgress = true if and only if its
\* startedAt is not null.
InProgressIffStarted ==
  \A i \in 1..Len(tasks) :
    tasks[i].inProgress <=> tasks[i].startedAt # Null

\* A task was started, stopped a tick later and started again, next to a
\* task that was never started.
InProgressIffStartedWitness ==
  /\ req.op = "start" /\ res.status = 200
  /\ \E i \in 1..Len(tasks) :
       /\ tasks[i].inProgress
       /\ tasks[i].startedAt # Null
       /\ tasks[i].timeSpent = 1
  /\ \E i \in 1..Len(tasks) :
       ~tasks[i].inProgress /\ tasks[i].startedAt = Null

\* C27: in tasks.json a task has completed = true if and only if it has
\* archived = true.
CompletedIffArchived ==
  \A i \in 1..Len(tasks) : tasks[i].completed <=> tasks[i].archived

\* A task was completed and restored and another is completed and archived.
CompletedIffArchivedWitness ==
  /\ \E i \in 1..Len(tasks) :
       /\ tasks[i].completed /\ tasks[i].archived
  /\ \E i \in 1..Len(tasks) :
       /\ ~tasks[i].completed /\ ~tasks[i].archived
       /\ tasks[i].completedAt # Null

\* C28: no task of tasks.json is both archived and in progress, and no task
\* of an archive file is in progress.
ArchivedNeverInProgress ==
  /\ \A i \in 1..Len(tasks) : ~(tasks[i].archived /\ tasks[i].inProgress)
  /\ \A i \in 1..Len(Filed(archiveFiles)) :
       ~Filed(archiveFiles)[i].inProgress

\* C29: a second complete of a task that is completed and archived leaves
\* tasks.json as the first left it: no further successor is added and
\* completedAt stays.
CompleteIdempotent ==
  [][(Handles("complete") /\ Val(req'.id) \in IdsOf(tasks)
        /\ TaskOf(tasks, Val(req'.id)).completed
        /\ TaskOf(tasks, Val(req'.id)).archived) =>
       /\ Len(tasks') = Len(tasks)
       /\ \A i \in 1..Len(tasks) :
            /\ tasks'[i].id = tasks[i].id
            /\ tasks'[i].completedAt = tasks[i].completedAt
            /\ [tasks'[i] EXCEPT !.updatedAt = tasks[i].updatedAt] = tasks[i]
    ]_vars

-----------------------------------------------------------------------------
(* Claims about the page and the server (ClientSpec)                       *)

\* The positions of the tasks tasks.json stores as in progress.
StoredInProgress == { i \in 1..Len(tasks) : tasks[i].inProgress }

\* C30: once every click handler has returned, and after a page reload, the
\* page and the server agree on the active task: when tasks.json stores no
\* task as in progress, activeTaskId is null and the timer is stopped;
\* otherwise it stores exactly one, activeTaskId and the timer name it, and
\* the timer counts from its startedAt on top of its timeSpent.
ClientServerAgree ==
  Settled =>
    IF StoredInProgress = {}
      THEN activeTaskId = Null /\ timer = Null
      ELSE \E i \in StoredInProgress :
             /\ StoredInProgress = {i}
             /\ activeTaskId = Some(tasks[i].id)
             /\ timer # Null
             /\ Val(timer).activeTaskId = tasks[i].id
             /\ Val(timer).startedAt = IsoMs(Val(tasks[i].startedAt))
             /\ Val(timer).previousTimeSpent = tasks[i].timeSpent

=============================================================================
